---- MODULE Spec2Model ----
(***************************************************************************)
(* A model of near-sandbox-rs: the sandbox lifecycle (port reservation,    *)
(* launch, readiness probing, retry, teardown and the cleanup registry),   *)
(* the patch-state builder and its submission, and fast_forward.           *)
(*                                                                         *)
(* The specifications of the module:                                       *)
(*   Spec      - two concurrent Sandbox::start_* calls in one program,     *)
(*               the neard children, the cleanup registry, program exit,   *)
(*               SIGINT and SIGTERM;                                       *)
(*   SpecStart - the same start calls with retries, in a program that      *)
(*               keeps running;                                            *)
(*   SpecEnv   - the same start calls, of one attempt each, under every    *)
(*               value of an environment override;                         *)
(*   SpecPatch - one PatchState builder, PatchState::send and the node's   *)
(*               handling of sandbox_patch_state;                          *)
(*   SpecFetch - one PatchState builder and fetch_from_account against a   *)
(*               remote endpoint;                                          *)
(*   SpecCreate - one create_account and its submission;                   *)
(*   SpecFF    - one Sandbox::fast_forward call against a node;            *)
(*   SpecFFLive - SpecFF with the steps of fast_forward weakly fair;       *)
(*   SpecRpc   - one round trip of send_request and what its caller makes  *)
(*               of the response;                                          *)
(*   SpecRegistry - the threads that lock SANDBOX_PIDS, step by step;      *)
(*   SpecGenesis - one overwrite_genesis on a genesis.json;                *)
(*   SpecInstall - processes that ensure the binary of one version.        *)
(* Each specification leaves the variables of the others untouched.        *)
(***************************************************************************)
EXTENDS Integers, Sequences, FiniteSets, TLC

\* ------------------------------------------------------------------ bounds

\* The largest value of NEAR_SANDBOX_PORT_TRANSFER_RETRY (default 5).
MaxNumPortRetries == 2

\* timeout_secs of wait_until_ready: NEAR_RPC_TIMEOUT_SECS (default 10).
TimeoutSecs == 1

\* Width of the block heights: u64 is modelled as HeightBits bits.
HeightBits == 3

\* Polling iterations of fast_forward that fit into its 30 second timeout.
MaxTicks == 3

\* Longest list of StateRecords a builder accumulates.
MaxRecords == 3

\* Largest balance, in yoctoNEAR.
MaxBalance == 1

\* Calls of fetch_from / fetch_from_account in one builder chain.
MaxFetches == 1

\* ----------------------------------------------------------- lifecycle state

VARIABLES
    cfg,            \* cfg[s]: SandboxConfig.rpc_port / net_port (0 is None)
    env,            \* the value of NEAR_SANDBOX_MAX_PAYLOAD_SIZE in the environment
    home,           \* home[s]: where the payload limit written to config.json
                    \* came from ("none": nothing written yet)
    lockFailed,     \* ghost: the start calls that, in the reservation of ports
                    \* under way, had a try-lock fail on an OS-assigned port
    max_num_port_retries, \* max_num_port_retries[s]: the local of start call s
    pc,             \* pc[s]: where start call s (or the instance it returned) is
    attempt,        \* attempt[s]: the loop variable of the retry loop
    listener,       \* listener[s]: ports of the bound TcpListeners held by s
    lock,           \* lock[s]: ports whose advisory lock file is locked by s
    probes,         \* probes[s]: failed probes of the current wait_until_ready
    child,          \* child[s]: pid of the Child held by s (0: none)
    err,            \* err[s]: the SandboxError start returned ("none": none)
    procs,          \* procs[pid]: the neard process with that pid
    SANDBOX_PIDS,   \* the CleanupRegistry set
    INIT,           \* the Once guarding the exit hook and the signal thread
    sigpc,          \* position of the near-sandbox-cleanup signal thread
    program,        \* "running", "exiting" (atexit handlers run), "exited",
                    \* "killed" (ended by the default action of SIGINT)
    atSignal        \* ghost: the instances that were Ready when SIGINT arrived

lifeVars == <<cfg, env, home, lockFailed, max_num_port_retries, pc, attempt, listener, lock, probes, child, err, procs,
              SANDBOX_PIDS, INIT, sigpc, program, atSignal>>

\* The two start operations that run concurrently.
Starters == {1, 2}

\* The values SandboxConfig.rpc_port / net_port take: 0 models None, p >= 1
\* models Some(p). Port 1 is the one port callers ask for by number.
ConfiguredPorts == {0, 1}

\* One pid per (start call, attempt): pids are never reused in the model.
Pids == 1..(2 * MaxNumPortRetries)

PidOf(s, a) == (s - 1) * MaxNumPortRetries + a + 1

\* TCP ports. Besides port 1 there is one port per (start call, attempt, role):
\* the name given to a port the OS assigns while nothing else refers to it.
\* Ports nothing refers to are interchangeable, so one name per acquisition is
\* enough; every port something refers to can be assigned to anybody.
FreshPortOf(s, a, role) == 1 + 2 * (PidOf(s, a) - 1) + (IF role = "rpc" THEN 1 ELSE 2)

Ports == 1..(1 + 2 * (2 * MaxNumPortRetries))

NoListeners == [rpc |-> 0, net |-> 0]

NoProc == [st |-> "none", rpc |-> 0, net |-> 0]

\* A process that has exited (its arguments no longer matter).
Dead == [st |-> "dead", rpc |-> 0, net |-> 0]

\* A port is bound when a TcpListener of a start call holds it or a neard
\* process listens on it.
Bound(p) ==
    \/ \E s \in Starters : listener[s].rpc = p \/ listener[s].net = p
    \/ \E q \in Pids : procs[q].st = "serving" /\ (procs[q].rpc = p \/ procs[q].net = p)

\* The advisory lock of near-sandbox-port{p}.lock is held by some open file.
Locked(p) == \E s \in Starters : lock[s].rpc = p \/ lock[s].net = p

\* ------------------------------------------------- patch and fast_forward state

VARIABLES
    state,          \* PatchState.state: the accumulated StateRecords
    initial_balance,\* PatchState.initial_balance (-1 is None)
    spc,            \* position of PatchState::send
    records,        \* the local `records` of send (the payload)
    rpcLog,         \* the requests and replies of the RPCs send has made
    node,           \* the sandbox node: visible state and patches in progress
    pre,            \* ghost: the node's visible state when send was called
    queried,        \* result of the view_account query made after send
    last_fetch_data,\* the FetchData passed to the latest fetch_from_account
    fetches,        \* calls of fetch_from_account made on this builder
    fetchLog,       \* the queries fetch_from_account has sent to the endpoint
    remote          \* what the endpoint of fetch_from holds for the account

fetchVars == <<last_fetch_data, fetches, fetchLog, remote>>

patchVars == <<state, initial_balance, spc, records, rpcLog, node, pre, queried, fetchVars>>

VARIABLES
    fpc,            \* position of Sandbox::fast_forward
    blocks,         \* the argument of fast_forward
    initial_height, \* the local initial_height
    target_height,  \* the local target_height
    observed,       \* the height the last get_block_height of the polling
                    \* loop returned (-1: none yet)
    ticks,          \* elapsed polling ticks
    height,         \* the node's latest_block_height
    pending         \* blocks the node still has to produce for a fast-forward

ffVars == <<fpc, blocks, initial_height, target_height, observed, ticks,
            height, pending>>

VARIABLES
    caller,         \* the function that awaits send_request
    response,       \* what comes back for its request
    returned,       \* what send_request returned ("pending": not yet)
    outcome         \* what the caller made of it ("pending": not yet)

rpcVars == <<caller, response, returned, outcome>>

VARIABLES
    tpc,            \* tpc[t]: where thread t is in its use of SANDBOX_PIDS
    holders,        \* the threads that hold the MutexGuard of SANDBOX_PIDS
    poisoned,       \* the mutex is poisoned
    swallowed       \* ghost: the sweeps that found the mutex poisoned

regVars == <<tpc, holders, poisoned, swallowed>>

VARIABLES
    genesis,        \* genesis.json of the home directory
    gconfig,        \* the SandboxConfig that overwrite_genesis is given
    gresult,        \* what overwrite_genesis came to ("pending": not called)
    gprev           \* ghost: genesis.json as it was before the call

genVars == <<genesis, gconfig, gresult, gprev>>

VARIABLES
    ipc,            \* ipc[p]: where process p is in ensure_sandbox_bin_with_version
    binary,         \* the near-sandbox binary of the version exists at bin_path
    flock,          \* the processes that hold the lock of near-sandbox.lock
    installed,      \* ghost: the processes that downloaded and installed
    found           \* ghost: the processes that found the binary after locking

binVars == <<ipc, binary, flock, installed, found>>

vars == <<lifeVars, patchVars, ffVars, rpcVars, regVars, genVars, binVars>>

\* ------------------------------------------------------------ port reservation

\* A port some part of the state refers to: a configured port, a port whose lock
\* is held, or an argument of a live neard process.
Referenced(p) ==
    \/ \E s \in Starters : cfg[s].rpc = p \/ cfg[s].net = p
    \/ Locked(p)
    \/ \E q \in Pids : procs[q].st \in {"starting", "serving"}
                        /\ (procs[q].rpc = p \/ procs[q].net = p)

\* TcpListener::bind(127.0.0.1:0) by start call s: the ports the OS may assign,
\* which is any port that is not bound: a port something refers to, or a port
\* nothing refers to (named after this acquisition).
BindUnused(s, role) ==
    {p \in Ports : ~Bound(p) /\ (Referenced(p) \/ p = FreshPortOf(s, attempt[s], role))}

\* A bind that falls back to whatever port is free.
BindSpecificOrOther(port) == {p \in Ports : ~Bound(p)}

\* TcpListener::bind(127.0.0.1:port) for a requested port: that port or BindError.
BindSpecific(port) == IF Bound(port) THEN {} ELSE {port}

\* lockfile.try_lock_exclusive() on near-sandbox-port{p}.lock.
TryLockExclusive(p) == ~Locked(p)

\* A loop that is left whatever try_lock_exclusive returned.
UnusedPortLockIgnored(p) == TRUE

\* acquire_unused_port_guard leaves its loop only with the lock taken.
UnusedPortLockOk(p) == TryLockExclusive(p)

\* The ports and locks a start call holds are released when start returns an
\* error or the attempt is abandoned (the listeners and Files are dropped).
Release(s) ==
    /\ listener' = [listener EXCEPT ![s] = NoListeners]
    /\ lock' = [lock EXCEPT ![s] = NoListeners]

\* start returns Err(e).
Fail(s, e) ==
    /\ pc' = [pc EXCEPT ![s] = "Failed"]
    /\ err' = [err EXCEPT ![s] = e]
    /\ lockFailed' = lockFailed \ {s}
    /\ Release(s)

Running(s) == program = "running"

\* A loop that makes one iteration more: for attempt in 0..=max_num_port_retries.
InLoopRangeInclusive(a, n) == a <= n

\* for attempt in 0..max_num_port_retries: the loop has an iteration for a.
InLoopRange(a, n) == a < n

\* SandboxError::SandboxStartupRetriesExhausted(max_num_port_retries): the error
\* and the number it carries.
SandboxStartupRetriesExhausted(n) ==
    "SandboxStartupRetriesExhausted(" \o ToString(n) \o ")"

\* What an environment variable that overrides a number may hold.
EnvValues == {"unset", "parsable", "unparsable"}

\* parse_env::<T>(env_var): Ok(None) when the variable is not set, Ok(Some(v))
\* when its value parses, Err(EnvParseError) when it does not.
parse_env(val) ==
    IF val = "unset" THEN [ok |-> TRUE, some |-> FALSE, err |-> "none"]
    ELSE IF val = "parsable" THEN [ok |-> TRUE, some |-> TRUE, err |-> "none"]
    ELSE [ok |-> FALSE, some |-> FALSE, err |-> "EnvParseError"]

\* Result<Option<T>, E>::ok().flatten(): Some(v) for Ok(Some(v)), None for
\* Ok(None) and for Err(e).
OkFlatten(r) == r.ok /\ r.some

\* config.max_payload_size.or_else(|| parse_env(..).ok().flatten())
\* .unwrap_or(1024 * 1024 * 1024), for a SandboxConfig whose max_payload_size
\* is None: where the limit written to config.json comes from.
max_payload_size == IF OkFlatten(parse_env(env)) THEN "env" ELSE "default"

\* init_home_dir_with_version, set_sandbox_configs_with_config and
\* set_sandbox_genesis_with_config: the home directory is written, or the first
\* error is returned. `for attempt in 0..max_num_port_retries` has no iteration
\* when the limit is 0.
ConfigureHome(s) ==
    /\ Running(s) /\ pc[s] = "ConfiguringHome"
    /\ \/ /\ InLoopRange(0, max_num_port_retries[s])
          /\ home' = [home EXCEPT ![s] = max_payload_size]
          /\ pc' = [pc EXCEPT ![s] = "BindRpc"]
          /\ UNCHANGED <<err, listener, lock, lockFailed>>
       \/ /\ ~InLoopRange(0, max_num_port_retries[s])
          /\ home' = [home EXCEPT ![s] = max_payload_size]
          /\ Fail(s, SandboxStartupRetriesExhausted(max_num_port_retries[s]))
       \/ /\ Fail(s, "SandboxConfigError")
          /\ UNCHANGED home
    /\ UNCHANGED <<cfg, env, max_num_port_retries, attempt, probes, child, procs, SANDBOX_PIDS, INIT, sigpc,
                   program, atSignal>>
    /\ UNCHANGED <<patchVars, ffVars, rpcVars, regVars, genVars, binVars>>

\* acquire_or_lock_port, first half: bind the listener of `role`. A requested
\* port fails with BindError exactly when it is bound; bind to port 0 fails when
\* the OS has no port to give.
Bind(s, role, here, next) ==
    /\ Running(s) /\ pc[s] = here
    /\ LET got == IF cfg[s][role] = 0 THEN BindUnused(s, role)
                  ELSE BindSpecific(cfg[s][role])
       IN  \/ /\ \E p \in got : listener' = [listener EXCEPT ![s][role] = p]
              /\ pc' = [pc EXCEPT ![s] = next]
              /\ UNCHANGED <<err, lock, lockFailed>>
           \/ /\ got = {} \/ cfg[s][role] = 0
              /\ Fail(s, "BindError")
    /\ UNCHANGED <<cfg, env, home, max_num_port_retries, attempt, probes, child, procs, SANDBOX_PIDS, INIT, sigpc,
                   program, atSignal>>
    /\ UNCHANGED <<patchVars, ffVars, rpcVars, regVars, genVars, binVars>>

\* A guard pair whose listener has been closed already.
DroppedListener(p) == 0

\* Ok((listener_port_guard, lockfile)): the listener is returned still bound,
\* together with the locked file.
KeptListener(p) == p

\* acquire_or_lock_port, second half: try-lock the lock file of the bound port.
\* With no port requested a failed try-lock drops the listener and binds again
\* (the loop of acquire_unused_port_guard); with a requested port it is a
\* LockingError (try_acquire_specific_port_guard).
TryLock(s, role, here, again, next) ==
    /\ Running(s) /\ pc[s] = here
    /\ LET p == listener[s][role]
       IN  IF cfg[s][role] = 0
           THEN IF UnusedPortLockOk(p)
                THEN /\ lock' = [lock EXCEPT ![s][role] = p]
                     /\ listener' = [listener EXCEPT ![s][role] = KeptListener(p)]
                     /\ pc' = [pc EXCEPT ![s] = next]
                     /\ UNCHANGED <<err, lockFailed>>
                ELSE /\ listener' = [listener EXCEPT ![s][role] = 0]
                     /\ lockFailed' = lockFailed \cup {s}
                     /\ pc' = [pc EXCEPT ![s] = again]
                     /\ UNCHANGED <<err, lock>>
           ELSE IF TryLockExclusive(p)
                THEN /\ lock' = [lock EXCEPT ![s][role] = p]
                     /\ listener' = [listener EXCEPT ![s][role] = KeptListener(p)]
                     /\ pc' = [pc EXCEPT ![s] = next]
                     /\ UNCHANGED <<err, lockFailed>>
                ELSE Fail(s, "LockingError")
    /\ UNCHANGED <<cfg, env, home, max_num_port_retries, attempt, probes, child, procs, SANDBOX_PIDS, INIT, sigpc,
                   program, atSignal>>
    /\ UNCHANGED <<patchVars, ffVars, rpcVars, regVars, genVars, binVars>>

BindRpc(s) == Bind(s, "rpc", "BindRpc", "LockRpc")
LockRpc(s) == TryLock(s, "rpc", "LockRpc", "BindRpc", "BindNet")
BindNet(s) == Bind(s, "net", "BindNet", "LockNet")
LockNet(s) == TryLock(s, "net", "LockNet", "BindNet", "Launching")

\* ------------------------------------------------------------------- launching

\* run_neard_with_port_guards: both listeners are dropped, then
\* Command::new(bin).args(--rpc-addr, --network-addr).spawn() starts a neard
\* process told to use the two reserved ports, or fails with a RuntimeError (or
\* ensure_sandbox_bin_with_version fails before that). The function does not
\* suspend between the drops and the spawn.
run_neard_with_port_guards(s) ==
    /\ Running(s) /\ pc[s] = "Launching"
    /\ \/ /\ procs' = [procs EXCEPT ![PidOf(s, attempt[s])] =
                          [st |-> "starting", rpc |-> lock[s].rpc, net |-> lock[s].net]]
          /\ child' = [child EXCEPT ![s] = PidOf(s, attempt[s])]
          /\ listener' = [listener EXCEPT ![s] = NoListeners]
          /\ pc' = [pc EXCEPT ![s] = "Register"]
          /\ lockFailed' = lockFailed \ {s}
          /\ UNCHANGED <<err, lock>>
       \/ /\ Fail(s, "RuntimeError")
          /\ UNCHANGED <<procs, child>>
    /\ UNCHANGED <<cfg, env, home, max_num_port_retries, attempt, probes, SANDBOX_PIDS, INIT, sigpc, program, atSignal>>
    /\ UNCHANGED <<patchVars, ffVars, rpcVars, regVars, genVars, binVars>>

\* A spawned neard binds its RPC and network addresses and starts serving, or
\* exits because one of them is in use.
NeardBind(q) ==
    /\ procs[q].st = "starting"
    /\ IF ~Bound(procs[q].rpc) /\ ~Bound(procs[q].net) /\ procs[q].rpc # procs[q].net
       THEN procs' = [procs EXCEPT ![q].st = "serving"]
       ELSE procs' = [procs EXCEPT ![q] = Dead]
    /\ UNCHANGED <<cfg, env, home, lockFailed, max_num_port_retries, pc, attempt, listener, lock, probes, child, err,
                   SANDBOX_PIDS, INIT, sigpc, program, atSignal>>
    /\ UNCHANGED <<patchVars, ffVars, rpcVars, regVars, genVars, binVars>>

\* ------------------------------------------------------------ cleanup registry

\* A registration that inserts nothing.
register_nothing(pid) == SANDBOX_PIDS

\* register_pid: SANDBOX_PIDS.lock().unwrap().insert(pid).
register_pid(pid) == SANDBOX_PIDS \cup {pid}

\* An unregistration that clears the set.
unregister_all(pid) == {}

\* unregister_pid: SANDBOX_PIDS.lock().unwrap().remove(&pid).
unregister_pid(pid) == SANDBOX_PIDS \ {pid}

\* libc::kill(pid, SIGKILL) / Child::start_kill: a live process dies, and the
\* ports it listens on are free again.
Killed(pr) == IF pr.st \in {"starting", "serving"} THEN Dead ELSE pr

\* A sweep that signals nobody.
kill_none == procs

\* kill_all_sandboxes: under the lock, SIGKILL to every pid in the set. The set
\* itself is left as it is.
kill_all_sandboxes == [q \in Pids |-> IF q \in SANDBOX_PIDS THEN Killed(procs[q]) ELSE procs[q]]

\* CleanupGuard::new(pid): INIT.call_once registers the atexit hook and spawns
\* the signal thread, then the pid is registered.
CleanupGuardNew(pid) ==
    /\ INIT' = TRUE
    /\ sigpc' = IF INIT THEN sigpc ELSE "spawned"
    /\ SANDBOX_PIDS' = register_pid(pid)

\* impl Drop for CleanupGuard: the pid is unregistered.
CleanupGuardDrop(pid) == SANDBOX_PIDS' = unregister_pid(pid)

\* The guard of the child is created once the process handle is known, and is
\* kept with the Child.
Register(s) ==
    /\ Running(s) /\ pc[s] = "Register"
    /\ CleanupGuardNew(child[s])
    /\ probes' = [probes EXCEPT ![s] = 0]
    /\ pc' = [pc EXCEPT ![s] = "AwaitingReady"]
    /\ UNCHANGED <<cfg, env, home, lockFailed, max_num_port_retries, attempt, listener, lock, child, err, procs, program, atSignal>>
    /\ UNCHANGED <<patchVars, ffVars, rpcVars, regVars, genVars, binVars>>

\* ------------------------------------------------------------- readiness probe

\* ureq::get("{rpc}/status").call() is Ok when some process serves that port.
StatusOk(port) == \E q \in Pids : procs[q].st = "serving" /\ procs[q].rpc = port

\* A loop of one probe per second of the timeout.
ProbeLimitOncePerSecond == TimeoutSecs

\* for _ in 0..timeout_secs * 2
ProbeLimit == 2 * TimeoutSecs

\* The attempt is abandoned: the Child is dropped (the process is not signalled),
\* its CleanupGuard is dropped, and both lock Files are closed.
AbandonAttempt(s) ==
    /\ CleanupGuardDrop(child[s])
    /\ child' = [child EXCEPT ![s] = 0]
    /\ Release(s)

\* A retry that starts over from the configuration of the home directory.
RetryFromConfiguringHome == "ConfiguringHome"

\* `continue` in the retry loop: the next iteration begins with the acquisition
\* of the RPC port; the home directory written before the loop is kept.
RetryFrom == "BindRpc"

\* One iteration of wait_until_ready and, when it returns, the match on its
\* result in start_sandbox_with_config_and_version.
Probe(s) ==
    /\ Running(s) /\ pc[s] = "AwaitingReady"
    /\ IF StatusOk(lock[s].rpc)
       THEN /\ pc' = [pc EXCEPT ![s] = "Ready"]
            /\ UNCHANGED <<attempt, listener, lock, probes, child, err, SANDBOX_PIDS>>
       ELSE IF probes[s] + 1 < ProbeLimit
       THEN /\ probes' = [probes EXCEPT ![s] = @ + 1]
            /\ UNCHANGED <<pc, attempt, listener, lock, child, err, SANDBOX_PIDS>>
       ELSE \* Err(TimeoutError): continue, or leave the loop
            /\ probes' = [probes EXCEPT ![s] = 0]
            /\ attempt' = [attempt EXCEPT ![s] = @ + 1]
            /\ AbandonAttempt(s)
            /\ IF InLoopRange(attempt[s] + 1, max_num_port_retries[s])
               THEN pc' = [pc EXCEPT ![s] = RetryFrom] /\ UNCHANGED err
               ELSE /\ pc' = [pc EXCEPT ![s] = "Failed"]
                    /\ err' = [err EXCEPT ![s] =
                            SandboxStartupRetriesExhausted(max_num_port_retries[s])]
    /\ UNCHANGED <<cfg, env, home, lockFailed, max_num_port_retries, procs, INIT, sigpc, program, atSignal>>
    /\ UNCHANGED <<patchVars, ffVars, rpcVars, regVars, genVars, binVars>>

\* wait_until_ready returns Err(RuntimeError) (the blocking probe task failed):
\* start returns it.
ProbeRuntimeError(s) ==
    /\ Running(s) /\ pc[s] = "AwaitingReady"
    /\ pc' = [pc EXCEPT ![s] = "Failed"]
    /\ err' = [err EXCEPT ![s] = "RuntimeError"]
    /\ AbandonAttempt(s)
    /\ UNCHANGED <<cfg, env, home, lockFailed, max_num_port_retries, attempt, probes, procs, INIT, sigpc, program, atSignal>>
    /\ UNCHANGED <<patchVars, ffVars, rpcVars, regVars, genVars, binVars>>

\* -------------------------------------------------------------------- teardown

\* impl Drop for Sandbox: self.process.start_kill(); self.process.try_wait().
DropSandbox(s) ==
    /\ Running(s) /\ pc[s] = "Ready"
    /\ procs' = [procs EXCEPT ![child[s]] = Killed(@)]
    /\ pc' = [pc EXCEPT ![s] = "Dropping"]
    /\ UNCHANGED <<cfg, env, home, lockFailed, max_num_port_retries, attempt, listener, lock, probes, child, err, SANDBOX_PIDS,
                   INIT, sigpc, program, atSignal>>
    /\ UNCHANGED <<patchVars, ffVars, rpcVars, regVars, genVars, binVars>>

\* After Sandbox::drop the fields are dropped: the lock Files are closed and the
\* CleanupGuard unregisters the pid.
DropFields(s) ==
    /\ Running(s) /\ pc[s] = "Dropping"
    /\ CleanupGuardDrop(child[s])
    /\ Release(s)
    /\ pc' = [pc EXCEPT ![s] = "Dropped"]
    /\ UNCHANGED <<cfg, env, home, lockFailed, max_num_port_retries, attempt, probes, child, err, procs, INIT, sigpc, program,
                   atSignal>>
    /\ UNCHANGED <<patchVars, ffVars, rpcVars, regVars, genVars, binVars>>

Quiet(s) == pc[s] \in {"ConfiguringHome", "Ready", "Dropped", "Failed"}

\* The program terminates normally (main returns or exit is called) while no
\* start or drop is under way; instances still Ready are the ones kept in
\* statics. The atexit handlers run if INIT registered one.
ProgramExit ==
    /\ program = "running"
    /\ \A s \in Starters : Quiet(s)
    /\ program' = IF INIT THEN "exiting" ELSE "exited"
    /\ UNCHANGED <<cfg, env, home, lockFailed, max_num_port_retries, pc, attempt, listener, lock, probes, child, err, procs,
                   SANDBOX_PIDS, INIT, sigpc, atSignal>>
    /\ UNCHANGED <<patchVars, ffVars, rpcVars, regVars, genVars, binVars>>

\* cleanup_remaining_sandboxes, the atexit hook; the program is gone after it.
ExitHook ==
    /\ program = "exiting"
    /\ procs' = kill_all_sandboxes
    /\ program' = "exited"
    /\ UNCHANGED <<cfg, env, home, lockFailed, max_num_port_retries, pc, attempt, listener, lock, probes, child, err,
                   SANDBOX_PIDS, INIT, sigpc, atSignal>>
    /\ UNCHANGED <<patchVars, ffVars, rpcVars, regVars, genVars, binVars>>

\* spawn_signal_handler's thread: the runtime is built and
\* signal(SignalKind::interrupt()) installs the listener.
SignalThreadInstall ==
    /\ program = "running" /\ sigpc = "spawned"
    /\ sigpc' = "waiting"
    /\ UNCHANGED <<cfg, env, home, lockFailed, max_num_port_retries, pc, attempt, listener, lock, probes, child, err, procs,
                   SANDBOX_PIDS, INIT, program, atSignal>>
    /\ UNCHANGED <<patchVars, ffVars, rpcVars, regVars, genVars, binVars>>

\* SIGINT arrives. With the listener installed sigint.recv() returns in the
\* signal thread; without it the default action ends the program at once.
Sigint ==
    /\ program = "running" /\ sigpc \in {"none", "spawned", "waiting"}
    /\ atSignal' = {s \in Starters : pc[s] = "Ready"}
    /\ IF sigpc = "waiting"
       THEN sigpc' = "killing" /\ UNCHANGED program
       ELSE program' = "killed" /\ UNCHANGED sigpc
    /\ UNCHANGED <<cfg, env, home, lockFailed, max_num_port_retries, pc, attempt, listener, lock, probes, child, err, procs,
                   SANDBOX_PIDS, INIT>>
    /\ UNCHANGED <<patchVars, ffVars, rpcVars, regVars, genVars, binVars>>

\* SIGTERM arrives. The signal thread listens for SignalKind::interrupt() only,
\* so the default action ends the program at once.
Sigterm ==
    /\ program = "running"
    /\ program' = "killed"
    /\ UNCHANGED <<cfg, env, home, lockFailed, max_num_port_retries, pc, attempt, listener, lock, probes, child, err, procs,
                   SANDBOX_PIDS, INIT, sigpc, atSignal>>
    /\ UNCHANGED <<patchVars, ffVars, rpcVars, regVars, genVars, binVars>>

\* The signal thread: kill_all_sandboxes().
HandlerKillAll ==
    /\ program \in {"running", "exiting"} /\ sigpc = "killing"
    /\ procs' = kill_all_sandboxes
    /\ sigpc' = "reraise"
    /\ UNCHANGED <<cfg, env, home, lockFailed, max_num_port_retries, pc, attempt, listener, lock, probes, child, err,
                   SANDBOX_PIDS, INIT, program, atSignal>>
    /\ UNCHANGED <<patchVars, ffVars, rpcVars, regVars, genVars, binVars>>

\* The signal thread: signal(SIGINT, SIG_DFL); raise(SIGINT). The default
\* action ends the program; atexit handlers do not run.
HandlerReraise ==
    /\ program \in {"running", "exiting"} /\ sigpc = "reraise"
    /\ sigpc' = "done"
    /\ program' = "killed"
    /\ UNCHANGED <<cfg, env, home, lockFailed, max_num_port_retries, pc, attempt, listener, lock, probes, child, err, procs,
                   SANDBOX_PIDS, INIT, atSignal>>
    /\ UNCHANGED <<patchVars, ffVars, rpcVars, regVars, genVars, binVars>>

\* ------------------------------------------------------ lifecycle specifications

\* The start calls whose environment allows more than one attempt. A timed-out
\* attempt leaves its neard running, so every further retrying call multiplies
\* the reachable states.
StartsWithRetry == {1}

\* Everything but the retry limits: both start calls are about to begin, no
\* process exists, the registry is empty and nothing is initialised.
InitLife ==
    /\ cfg \in [Starters -> [rpc : ConfiguredPorts, net : ConfiguredPorts]]
    /\ home = [s \in Starters |-> "none"]
    /\ lockFailed = {}
    /\ pc = [s \in Starters |-> "ConfiguringHome"]
    /\ attempt = [s \in Starters |-> 0]
    /\ listener = [s \in Starters |-> NoListeners]
    /\ lock = [s \in Starters |-> NoListeners]
    /\ probes = [s \in Starters |-> 0]
    /\ child = [s \in Starters |-> 0]
    /\ err = [s \in Starters |-> "none"]
    /\ procs = [q \in Pids |-> NoProc]
    /\ SANDBOX_PIDS = {}
    /\ INIT = FALSE
    /\ sigpc = "none"
    /\ program = "running"
    /\ atSignal = {}

\* The patch builder and fast_forward stay where they are under Spec.
IdlePatch ==
    /\ state = <<>> /\ initial_balance = -1 /\ spc = "idle" /\ records = <<>>
    /\ rpcLog = <<>> /\ node = 0 /\ pre = 0 /\ queried = 0
    /\ last_fetch_data = 0 /\ fetches = 0 /\ fetchLog = <<>> /\ remote = 0

IdleFF ==
    /\ fpc = "idle" /\ blocks = 0 /\ initial_height = 0 /\ target_height = 0
    /\ observed = -1 /\ ticks = 0 /\ height = 0 /\ pending = 0

IdleRpc ==
    /\ caller = "none" /\ response = 0 /\ returned = "pending" /\ outcome = "pending"

IdleRegistry ==
    /\ tpc = 0 /\ holders = {} /\ poisoned = FALSE /\ swallowed = {}

IdleGenesis ==
    /\ genesis = 0 /\ gconfig = 0 /\ gresult = "pending" /\ gprev = 0

IdleBinary ==
    /\ ipc = 0 /\ binary = TRUE /\ flock = {} /\ installed = {} /\ found = {}

\* Spec: the whole lifecycle, each start call limited to a single attempt.
Init ==
    /\ InitLife
    /\ env = "unset"
    /\ max_num_port_retries \in [Starters -> 0..1]
    /\ IdlePatch /\ IdleFF /\ IdleRpc /\ IdleRegistry /\ IdleGenesis /\ IdleBinary

\* The steps of start, of the neard children and of teardown.
NextStart ==
    \/ \E s \in Starters : ConfigureHome(s)
    \/ \E s \in Starters : BindRpc(s)
    \/ \E s \in Starters : LockRpc(s)
    \/ \E s \in Starters : BindNet(s)
    \/ \E s \in Starters : LockNet(s)
    \/ \E s \in Starters : run_neard_with_port_guards(s)
    \/ \E s \in Starters : Register(s)
    \/ \E s \in Starters : Probe(s)
    \/ \E s \in Starters : ProbeRuntimeError(s)
    \/ \E s \in Starters : DropSandbox(s)
    \/ \E s \in Starters : DropFields(s)
    \/ \E q \in Pids : NeardBind(q)

\* The steps of program termination and of the signal thread.
NextExit ==
    \/ ProgramExit
    \/ ExitHook
    \/ SignalThreadInstall
    \/ Sigint
    \/ Sigterm
    \/ HandlerKillAll
    \/ HandlerReraise

Next == NextStart \/ NextExit

Spec == Init /\ [][Next]_vars

\* SpecStart: two concurrent start calls with retries, in a program that keeps
\* running.
InitStart ==
    /\ InitLife
    /\ env = "unset"
    /\ max_num_port_retries \in [Starters -> 0..MaxNumPortRetries]
    /\ \A s \in Starters \ StartsWithRetry : max_num_port_retries[s] <= 1
    /\ IdlePatch /\ IdleFF /\ IdleRpc /\ IdleRegistry /\ IdleGenesis /\ IdleBinary

SpecStart == InitStart /\ [][NextStart]_vars

\* SpecEnv: two concurrent start calls of a single attempt each, in a program
\* whose environment holds any value for NEAR_SANDBOX_MAX_PAYLOAD_SIZE.
InitEnv ==
    /\ InitLife
    /\ env \in EnvValues
    /\ max_num_port_retries \in [Starters -> 0..1]
    /\ IdlePatch /\ IdleFF /\ IdleRpc /\ IdleRegistry /\ IdleGenesis /\ IdleBinary

SpecEnv == InitEnv /\ [][NextStart]_vars

\* ------------------------------------------------------------ lifecycle claims

\* Both ports of the start call are assigned by the OS.
OsAssigned(s) == cfg[s].rpc = 0 /\ cfg[s].net = 0

\* The RPC and network port of the instance start call s returned.
InstancePorts(s) == {lock[s].rpc, lock[s].net}

\* C1: when two concurrent start calls with OS-assigned ports are both Ready, no
\* RPC or network port of one instance is an RPC or network port of the other.
C1_PortUniqueness ==
    \A s, t \in Starters :
        (s # t /\ OsAssigned(s) /\ OsAssigned(t) /\ pc[s] = "Ready" /\ pc[t] = "Ready")
            => InstancePorts(s) \cap InstancePorts(t) = {}

\* Both instances are Ready on OS-assigned ports, one of them after a retry.
C1_Witness ==
    /\ \A s \in Starters : OsAssigned(s) /\ pc[s] = "Ready" /\ 0 \notin InstancePorts(s)
    /\ \E s \in Starters : attempt[s] > 0

BindPc(role) == IF role = "rpc" THEN "BindRpc" ELSE "BindNet"

LockPc(role) == IF role = "rpc" THEN "LockRpc" ELSE "LockNet"

\* One step seen from a start call that asked for port cfg[s][role].
C10_Step(s, role) ==
    LET p == cfg[s][role]
    IN  p # 0 =>
          \* the bind of a bound port is a BindError
          /\ (pc[s] = BindPc(role) /\ Bound(p) /\ pc'[s] # pc[s])
                => (pc'[s] = "Failed" /\ err'[s] = "BindError")
          \* the try-lock of a locked port is a LockingError
          /\ (pc[s] = LockPc(role) /\ Locked(p) /\ pc'[s] # pc[s])
                => (pc'[s] = "Failed" /\ err'[s] = "LockingError")
          \* the call never holds another port in that role
          /\ listener'[s][role] \in {0, p} /\ lock'[s][role] \in {0, p}
          \* and the failure is final
          /\ (pc[s] = "Failed" => pc'[s] = "Failed" /\ err'[s] = err[s])

\* C10: a start call that asks for port p and finds p bound (at its bind) or
\* locked (at its try-lock) fails at that step with BindError or LockingError,
\* stays failed, and never holds a port other than p in that role.
C10_SpecificPortFailsFast ==
    [][\A s \in Starters : C10_Step(s, "rpc") /\ C10_Step(s, "net")]_vars

\* A call that asked for RPC port 1 failed with a LockingError while the other
\* call, which asked for it too, went on to be Ready on it.
C10_Witness ==
    \E s, t \in Starters :
        /\ s # t /\ cfg[s].rpc = 1 /\ cfg[t].rpc = 1
        /\ pc[s] = "Failed" /\ err[s] = "LockingError"
        /\ pc[t] = "Ready" /\ lock[t].rpc = 1

Alive(q) == procs[q].st \in {"starting", "serving"}

\* The instance start call s returned can no longer be reached by the caller:
\* it went out of scope, or it was held in a static when the program terminated
\* normally or when the interrupt handler had made its sweep. (An interrupt that
\* arrives before the handler is installed is left out: no sweep is made then.)
Unreachable(s) ==
    \/ pc[s] = "Dropped"
    \/ pc[s] = "Ready" /\ program = "exited"
    \/ pc[s] = "Ready" /\ s \in atSignal /\ sigpc \in {"reraise", "done"}

\* C3: once an instance is unreachable its pid is not in the registry set and
\* its process is not running.
C3_UnreachableIsUnregisteredAndDead ==
    \A s \in Starters :
        Unreachable(s) => (child[s] \notin SANDBOX_PIDS /\ ~Alive(child[s]))

\* The attempts of start call s that spawned a neard process.
Launches(s) == {a \in 0..(MaxNumPortRetries - 1) : procs[PidOf(s, a)] # NoProc}

\* start call s returned the retries-exhausted error, whatever number it carries.
RetriesExhausted(s) ==
    \E n \in 0..(MaxNumPortRetries + 1) : err[s] = SandboxStartupRetriesExhausted(n)

\* C11: a start call with retry setting N spawns at most N node processes; once
\* N attempts have timed out it has failed with RetriesExhausted(N), and it
\* returns that error only then; a call that returned an instance used fewer
\* than N timeouts.
C11_AtMostNAttemptsThenRetriesExhausted ==
    \A s \in Starters :
        LET N == max_num_port_retries[s]
        IN  /\ Cardinality(Launches(s)) <= N
            /\ attempt[s] <= N
            /\ (attempt[s] = N /\ pc[s] # "ConfiguringHome" /\ err[s] # "SandboxConfigError")
                    => (pc[s] = "Failed" /\ err[s] = SandboxStartupRetriesExhausted(N))
            /\ RetriesExhausted(s)
                    => (pc[s] = "Failed" /\ attempt[s] = N
                        /\ err[s] = SandboxStartupRetriesExhausted(N))
            /\ pc[s] \in {"Ready", "Dropping", "Dropped"}
                    => (err[s] = "none" /\ attempt[s] < N)

\* A start call allowed MaxNumPortRetries attempts spawned that many processes,
\* saw each attempt time out and failed with the error carrying the setting.
C11_Witness ==
    \E s \in Starters :
        /\ max_num_port_retries[s] = MaxNumPortRetries
        /\ Cardinality(Launches(s)) = MaxNumPortRetries
        /\ pc[s] = "Failed"
        /\ err[s] = SandboxStartupRetriesExhausted(MaxNumPortRetries)

\* C12: the node process of an attempt that timed out is not running once the
\* start call has moved on (to its next attempt or to returning the failure),
\* and the call then holds neither port lock of that attempt; so at most one
\* node process spawned by a start call runs at a time.
C12_TimedOutAttemptIsTerminatedAndUnlocked ==
    \A s \in Starters :
        /\ \A a \in Launches(s) : a < attempt[s] => ~Alive(PidOf(s, a))
        /\ Cardinality({a \in Launches(s) : Alive(PidOf(s, a))}) <= 1
        /\ (attempt[s] > 0 /\ pc[s] \in {"BindRpc", "Failed"}) => lock[s] = NoListeners

\* The start call holds a process handle that has been through registration:
\* it is probing the process, or it has returned the instance, which lives
\* until its drop has finished.
HoldsRegisteredChild(s) == pc[s] \in {"AwaitingReady", "Ready", "Dropping"}

C14_Step(s) ==
    \* Sandbox::drop has sent the kill when it returns
    /\ (pc[s] = "Ready" /\ pc'[s] = "Dropping") => procs'[child[s]] = Dead
    \* dropping the fields removes the pid of the instance and no other
    /\ (pc[s] = "Dropping" /\ pc'[s] = "Dropped")
            => (/\ child[s] \in SANDBOX_PIDS
                /\ SANDBOX_PIDS' = SANDBOX_PIDS \ {child[s]}
                /\ procs'[child[s]] = Dead)
    \* and the pid stays out of the set
    /\ pc[s] = "Dropped" => (pc'[s] = "Dropped" /\ child[s] \notin SANDBOX_PIDS')

KillAllActs ==
    \/ program = "exiting" /\ program' = "exited"
    \/ sigpc = "killing" /\ sigpc' = "reraise"

\* The node process of a returned instance served its RPC port, so it stops
\* running only when something kills it.
InstanceProcessTerminated(s) ==
    pc[s] \in {"Ready", "Dropping", "Dropped"} /\ ~Alive(child[s])

\* C15: no sweep of kill-all signals the pid of an instance whose process has
\* already been terminated (by the drop of the instance or by an earlier
\* sweep): such a pid has left the registry set before the sweep.
C15_KillAllNeverSignalsTerminatedPid ==
    [][KillAllActs =>
         \A s \in Starters : InstanceProcessTerminated(s) => child[s] \notin SANDBOX_PIDS]_vars

\* One step seen from the Once: it is set by the first registration and never
\* again, and that registration is the only step that registers the exit hook
\* and spawns the signal thread.
InstalledOnceStep ==
    /\ INIT => INIT'
    /\ (~INIT /\ INIT')
            => (SANDBOX_PIDS = {} /\ SANDBOX_PIDS' # {} /\ sigpc = "none" /\ sigpc' = "spawned")
    /\ (~INIT /\ ~INIT') => (SANDBOX_PIDS' = {} /\ sigpc' = "none")
    /\ sigpc # "none" => (sigpc' # "none" /\ (sigpc' = "spawned" => sigpc = "spawned"))

\* The exit hook is registered and the interrupt listener of the signal thread
\* is installed.
InstallationComplete == INIT /\ sigpc \notin {"none", "spawned"}

\* C16: the exit hook and the signal listener are installed once, by the first
\* pid registration, and whenever a pid is registered their installation is
\* complete.
C16_InstalledOnceBeforeFirstRegistration ==
    /\ [](SANDBOX_PIDS # {} => InstallationComplete)
    /\ [][InstalledOnceStep]_vars

\* The part of C16 about the Once alone.
InstalledOnce == [][InstalledOnceStep]_vars

\* The interrupt listener of the signal thread is installed.
ListenerInstalled == sigpc \notin {"none", "spawned"}

\* A signal ends the program in this step.
EndedBySignal == program # "killed" /\ program' = "killed"

C17_Step ==
    \* SIGINT is taken by the listener and does not end the program
    /\ (sigpc = "waiting" /\ sigpc' # sigpc) => (sigpc' = "killing" /\ program' = program)
    \* the listener then sweeps: no registered pid is left running
    /\ (sigpc = "killing" /\ sigpc' # sigpc)
            => (sigpc' = "reraise" /\ UNCHANGED SANDBOX_PIDS
                /\ \A q \in SANDBOX_PIDS : procs'[q].st \notin {"starting", "serving"})
    \* and only a listener that has swept re-delivers, which ends the program
    /\ (sigpc # "done" /\ sigpc' = "done") => (sigpc = "reraise" /\ program' = "killed")
    /\ (sigpc # "reraise" /\ sigpc' = "reraise") => sigpc = "killing"

Phase(p) ==
    CASE p = "ConfiguringHome" -> 1
      [] p \in {"BindRpc", "LockRpc", "BindNet", "LockNet"} -> 2
      [] p \in {"Launching", "Register"} -> 3
      [] p = "AwaitingReady" -> 4
      [] p = "Ready" -> 5
      [] OTHER -> 6

\* One step seen from start call s: it stays in its phase, enters the next one,
\* fails, or goes back from AwaitingReady to the reservation of the RPC port
\* with the attempt counted; the home directory is written in phase 1 only.
C22_Step(s) ==
    LET a == Phase(pc[s])
        b == Phase(pc'[s])
    IN  /\ \/ b = a
           \/ b = a + 1
           \/ pc'[s] = "Failed" /\ a < 5
           \/ /\ a = 4 /\ pc'[s] = "BindRpc"
              /\ attempt'[s] = attempt[s] + 1
        /\ a >= 2 => home'[s] = home[s]

\* What each phase has and has not done yet.
C22_PhaseOrder ==
    \A s \in Starters :
        /\ Phase(pc[s]) = 1 =>
              (home[s] = "none" /\ listener[s] = NoListeners /\ lock[s] = NoListeners
                  /\ child[s] = 0)
        /\ Phase(pc[s]) = 2 => (home[s] # "none" /\ child[s] = 0)
        /\ pc[s] = "Launching" =>
              (child[s] = 0 /\ lock[s].rpc # 0 /\ lock[s].net # 0
                  /\ listener[s] = lock[s])
        /\ pc[s] \in {"Register", "AwaitingReady", "Ready"} =>
              (child[s] # 0 /\ procs[child[s]] # NoProc)
        /\ probes[s] > 0 => Phase(pc[s]) >= 4

\* C22: start goes through ConfiguringHome, ReservingPorts, Launching,
\* AwaitingReady and Ready in that order: the home directory is written before
\* any port is reserved, both ports are reserved before the process is spawned,
\* probing begins only after the spawn, and the only backward edge leads from a
\* readiness timeout to the reservation of ports, the home directory being kept.
C22_StartupPhasesInOrder ==
    []C22_PhaseOrder /\ [][\A s \in Starters : C22_Step(s)]_vars

\* An instance is Ready in its second attempt, with the home directory written
\* for the first.
C22_Witness ==
    \E s \in Starters : pc[s] = "Ready" /\ attempt[s] = 1 /\ home[s] # "none"

\* One step seen from start call s and one of its two ports.
C23_Step(s, role) ==
    \* a listener is closed in the step that spawns the process, or with the
    \* start call's failure, or because its port could not be locked
    /\ (listener[s][role] # 0 /\ listener'[s][role] = 0) =>
          \/ /\ pc[s] = "Launching" /\ child[s] = 0 /\ child'[s] # 0
             /\ procs[child'[s]] = NoProc /\ procs'[child'[s]].st = "starting"
          \/ pc'[s] = "Failed"
          \/ lock[s][role] = 0 /\ lock'[s][role] = 0 /\ pc'[s] = BindPc(role)
    \* a lock is given up with the failure, with the timed-out attempt, or at
    \* teardown
    /\ (lock[s][role] # 0 /\ lock'[s][role] # lock[s][role]) =>
          \/ pc'[s] = "Failed"
          \/ pc[s] = "AwaitingReady" /\ attempt'[s] = attempt[s] + 1
          \/ pc[s] = "Dropping" /\ pc'[s] = "Dropped"

\* From the launch to the end of teardown both locks are held, on the ports the
\* process was told to use; after the spawn no listener is.
C23_LocksHeld ==
    \A s \in Starters :
        /\ pc[s] \in {"Launching", "Register", "AwaitingReady", "Ready", "Dropping"} =>
              (lock[s].rpc # 0 /\ lock[s].net # 0)
        /\ pc[s] \in {"Register", "AwaitingReady", "Ready", "Dropping"} =>
              /\ listener[s] = NoListeners
              /\ procs[child[s]].st # "dead" =>
                    (procs[child[s]].rpc = lock[s].rpc /\ procs[child[s]].net = lock[s].net)

\* C23: in every attempt the listeners of the two reserved ports are closed only
\* in the step that spawns the process, while the two file locks are held from
\* their acquisition through the spawn and, for the attempt that becomes Ready,
\* until teardown.
C23_ListenersUntilSpawnLocksUntilTeardown ==
    /\ []C23_LocksHeld
    /\ [][\A s \in Starters : C23_Step(s, "rpc") /\ C23_Step(s, "net")]_vars

\* An instance has been torn down: its process was spawned on the locked ports,
\* killed, and the locks were released last.
C23_Witness ==
    \E s \in Starters :
        /\ pc[s] = "Dropped" /\ child[s] # 0 /\ procs[child[s]] = Dead
        /\ lock[s] = NoListeners

\* One step seen from start call s.
C24_Step(s) ==
    \* Ready: the status request to the instance's RPC address was answered
    /\ (pc[s] = "AwaitingReady" /\ pc'[s] = "Ready") =>
          \E q \in Pids : procs[q].st = "serving" /\ procs[q].rpc = lock[s].rpc
    \* timeout: this was the last of 2 * timeout_secs unanswered requests
    /\ (pc[s] = "AwaitingReady" /\ attempt'[s] # attempt[s]) =>
          /\ probes[s] = 2 * TimeoutSecs - 1
          /\ ~ \E q \in Pids : procs[q].st = "serving" /\ procs[q].rpc = lock[s].rpc
    \* one request per tick
    /\ probes'[s] \in {probes[s], probes[s] + 1, 0}
    /\ probes'[s] # probes[s] => pc[s] = "AwaitingReady" \/ pc[s] = "Register"

\* C24: start returns a Ready instance only after a status request to the RPC
\* address of that instance was answered; an attempt makes one request per
\* tick and times out only with the 2 * timeout_secs-th consecutive unanswered
\* request.
C24_ReadyOnlyAfterAnsweredProbe ==
    /\ [](\A s \in Starters : probes[s] < 2 * TimeoutSecs)
    /\ [][\A s \in Starters : C24_Step(s)]_vars

\* An instance became Ready with the request that followed an unanswered one.
C24_Witness ==
    \E s \in Starters :
        /\ pc[s] = "Ready" /\ probes[s] = 2 * TimeoutSecs - 1
        /\ procs[child[s]].st = "serving"

\* C25: no configuration, port or process error of start is ignored: a start
\* call that meets an environment override it cannot parse does not get past
\* the configuration of the home directory, and ends with the error.
C25_NoStartErrorIgnored ==
    \A s \in Starters :
        (~parse_env(env).ok /\ pc[s] # "ConfiguringHome") =>
            (pc[s] = "Failed" /\ err[s] = "SandboxConfigError")

\* One step seen from start call s and a port it leaves to the OS.
C27_Step(s, role) ==
    (cfg[s][role] = 0 /\ pc[s] = LockPc(role) /\ pc'[s] # pc[s]) =>
        IF \E t \in Starters : listener[s][role] \in {lock[t].rpc, lock[t].net}
        THEN \* the try-lock fails: the port is dropped and another one tried
             /\ pc'[s] = BindPc(role) /\ err'[s] = "none"
             /\ listener'[s][role] = 0 /\ lock'[s][role] = 0
        ELSE \* the listener and the lock of that port are returned
             /\ listener'[s][role] = listener[s][role]
             /\ lock'[s][role] = listener[s][role]
             /\ pc'[s] \notin {BindPc(role), "Failed"}

\* A lock on an OS-assigned port is held by one start call, in one role, and
\* the listener held with it is the listener of that port.
C27_LockedByCaller ==
    \A s \in Starters : \A role \in {"rpc", "net"} :
        (cfg[s][role] = 0 /\ lock[s][role] # 0) =>
            /\ listener[s][role] \in {0, lock[s][role]}
            /\ \A t \in Starters \ {s} : lock[s][role] \notin {lock[t].rpc, lock[t].net}
            /\ lock[s].rpc # lock[s].net

\* C27: with no port requested, acquisition returns a listener and a lock for
\* the same OS-assigned port, the lock held by the caller alone; when the
\* try-lock on a freshly assigned port fails, that port is dropped and another
\* one is tried: acquisition neither fails nor returns an unlocked port.
C27_UnusedPortAcquiredLocked ==
    /\ []C27_LockedByCaller
    /\ [][\A s \in Starters : C27_Step(s, "rpc") /\ C27_Step(s, "net")]_vars

\* A start call that had a try-lock fail holds the listeners and the locks of
\* two ports the OS assigned, and is about to launch.
C27_Witness ==
    \E s \in Starters :
        /\ s \in lockFailed /\ OsAssigned(s) /\ pc[s] = "Launching"
        /\ lock[s].rpc # 0 /\ lock[s].net # 0 /\ listener[s] = lock[s]

\* ---------------------------------------------------------------- fast_forward

\* The lifecycle stays where it is under SpecFF and SpecPatch.
IdleLife ==
    /\ InitLife
    /\ env = "unset"
    /\ cfg = [s \in Starters |-> NoListeners]
    /\ max_num_port_retries = [s \in Starters |-> 1]

\* u64::MAX + 1
U64Modulus == 2 ^ HeightBits

U64 == 0..(U64Modulus - 1)

\* a + b on u64 overflows.
Overflows(a, b) == a + b >= U64Modulus

\* a + b on u64 with overflow checks off.
WrappingAdd(a, b) == (a + b) % U64Modulus

\* let initial_height = self.get_block_height().await?;
\* let target_height = initial_height + blocks;
\* On overflow the addition panics (overflow checks on) or wraps (checks off).
FFGetInitialHeight ==
    /\ fpc = "GetInitialHeight"
    /\ \/ /\ initial_height' = height
          /\ \/ /\ Overflows(height, blocks)
                /\ fpc' = "Panicked"
                /\ UNCHANGED target_height
             \/ /\ fpc' = "SendFastForward"
                /\ target_height' = WrappingAdd(height, blocks)
       \/ /\ fpc' = "Err"
          /\ UNCHANGED <<initial_height, target_height>>
    /\ UNCHANGED <<blocks, observed, ticks, height, pending>>
    /\ UNCHANGED <<lifeVars, patchVars, rpcVars, regVars, genVars, binVars>>

\* send_request(sandbox_fast_forward, delta_height = blocks): the node takes the
\* request and answers, whether or not the blocks exist yet; or the call fails.
FFSendFastForward ==
    /\ fpc = "SendFastForward"
    /\ \/ /\ pending' = blocks
          /\ fpc' = "Polling"
       \/ /\ fpc' = "Err"
          /\ UNCHANGED pending
    /\ UNCHANGED <<blocks, initial_height, target_height, observed, ticks, height>>
    /\ UNCHANGED <<lifeVars, patchVars, rpcVars, regVars, genVars, binVars>>

\* A polling loop that returns the error of its height query.
PollErrorReturned == "Err"

\* match self.get_block_height().await { .., _ => continue }: an Err of the
\* height query in the loop is dropped.
OnPollError == "Polling"

\* One iteration of the polling loop, the elapsed time being within the timeout:
\* get_block_height, and Ok(()) when the height has reached target_height.
FFPoll ==
    /\ fpc = "Polling" /\ ticks < MaxTicks
    /\ ticks' = ticks + 1
    /\ \/ /\ observed' = height
          /\ fpc' = IF height >= target_height THEN "Ok" ELSE "Polling"
       \/ /\ fpc' = OnPollError
          /\ UNCHANGED observed
    /\ UNCHANGED <<blocks, initial_height, target_height, height, pending>>
    /\ UNCHANGED <<lifeVars, patchVars, rpcVars, regVars, genVars, binVars>>

\* A timeout branch that goes on polling.
TimeoutKeepsPolling == "Polling"

\* return Err(SandboxRpcError::SandboxRpcError("fast_forward timeout: ..")),
\* once the get_block_height of the message has returned.
TimeoutOutcome == "Err"

\* start.elapsed() > timeout: the timeout error.
FFTimeout ==
    /\ fpc = "Polling" /\ ticks >= MaxTicks
    /\ fpc' = TimeoutOutcome
    /\ UNCHANGED <<blocks, initial_height, target_height, observed, ticks, height,
                   pending>>
    /\ UNCHANGED <<lifeVars, patchVars, rpcVars, regVars, genVars, binVars>>

\* The node produces blocks: the next one, or any part of the fast-forward it
\* still owes. Heights stay within u64.
NodeProduceBlocks ==
    /\ fpc \in {"GetInitialHeight", "SendFastForward", "Polling"}
    /\ \E k \in 1..(IF pending > 0 THEN pending ELSE 1) :
          /\ height + k < U64Modulus
          /\ height' = height + k
          /\ pending' = IF pending > 0 THEN pending - k ELSE 0
    /\ UNCHANGED <<fpc, blocks, initial_height, target_height, observed, ticks>>
    /\ UNCHANGED <<lifeVars, patchVars, rpcVars, regVars, genVars, binVars>>

\* fast_forward(blocks) is called on a node at some height.
InitFF ==
    /\ IdleLife /\ IdlePatch /\ IdleRpc /\ IdleRegistry /\ IdleGenesis /\ IdleBinary
    /\ fpc = "GetInitialHeight"
    /\ blocks \in U64
    /\ height \in U64
    /\ initial_height = 0 /\ target_height = 0 /\ observed = -1
    /\ ticks = 0 /\ pending = 0

NextFF ==
    \/ FFGetInitialHeight
    \/ FFSendFastForward
    \/ FFPoll
    \/ FFTimeout
    \/ NodeProduceBlocks

SpecFF == InitFF /\ [][NextFF]_vars

\* SpecFFLive: fast_forward with every RPC round trip returning and every tick
\* of its interval arriving: no step of fast_forward that is possible is put
\* off for ever. Nothing is asked of the node.
SpecFFLive ==
    /\ InitFF /\ [][NextFF]_vars
    /\ WF_vars(FFGetInitialHeight)
    /\ WF_vars(FFSendFastForward)
    /\ WF_vars(FFPoll)
    /\ WF_vars(FFTimeout)

\* fast_forward has returned (or panicked on the overflow of the target).
FFReturned == fpc \in {"Ok", "Err", "Panicked"}

\* C26: fast_forward terminates: with every RPC round trip returning, a call
\* that is polling returns Ok or an error, and a call whose polling has used up
\* the timeout without a height at the target returns the timeout error; the
\* polling loop returns no error before the timeout has elapsed.
C26_FastForwardTerminates ==
    /\ <>FFReturned
    /\ (fpc = "Polling") ~> (fpc \in {"Ok", "Err"})
    /\ (fpc = "Polling" /\ ticks >= MaxTicks) ~> (fpc = "Err")
    /\ [][(fpc = "Polling" /\ fpc' = "Err") => ticks >= MaxTicks]_vars

\* The timeout error was returned after polls that saw heights below the
\* target, on a node that never got there.
C26_Witness ==
    /\ fpc = "Err" /\ ticks >= MaxTicks
    /\ observed # -1 /\ observed < target_height /\ height < target_height

\* C2: fast_forward(n) returns Ok only after a height query of its polling loop
\* has observed a height of at least initial_height + n.
C2_OkOnlyAfterTargetObserved ==
    fpc = "Ok" => observed >= initial_height + blocks

\* --------------------------------------------------- the mutex of SANDBOX_PIDS

\* The threads that use SANDBOX_PIDS: two threads that each create a
\* CleanupGuard for a child and drop it, the thread that runs the atexit hook,
\* and the near-sandbox-cleanup signal thread.
Guards == {"guard1", "guard2"}

ExitThread == "exit"

SignalThread == "near-sandbox-cleanup"

Sweepers == {ExitThread, SignalThread}

RegThreads == Guards \cup Sweepers

\* The pid of the child a guard thread registers.
GuardPid(g) == IF g = "guard1" THEN 1 ELSE 2

\* The lifecycle variables the threads of the registry leave alone.
lifeRest == <<cfg, env, home, lockFailed, max_num_port_retries, pc, attempt, listener,
              lock, probes, child, err, atSignal>>

\* Threads run until the program is gone.
ThreadsRun == program \in {"running", "exiting"}

\* A lock() that does not wait for the holder.
MutexLockNoWait(t) == TRUE

\* SANDBOX_PIDS.lock() returns to thread t: nobody holds the guard.
MutexLock(t) == holders = {}

\* A sweep that takes the set out of the poisoned mutex and goes on.
sweep_despite_lock_error == kill_all_sandboxes

\* let Ok(pids) = SANDBOX_PIDS.lock() else { return; }: kill_all_sandboxes on a
\* poisoned mutex signals nobody.
swallow_lock_error == procs

\* A guard thread has spawned its child and enters CleanupGuard::new:
\* INIT.call_once has run when it goes on to register_pid.
GuardNew(g) ==
    /\ ThreadsRun /\ tpc[g] = "idle"
    /\ procs' = [procs EXCEPT ![GuardPid(g)] = [st |-> "starting", rpc |-> 0, net |-> 0]]
    /\ INIT' = TRUE
    /\ sigpc' = IF INIT THEN sigpc ELSE "spawned"
    /\ tpc' = [tpc EXCEPT ![g] = "reg_lock"]
    /\ UNCHANGED <<SANDBOX_PIDS, program, holders, poisoned, swallowed, lifeRest>>
    /\ UNCHANGED <<patchVars, ffVars, rpcVars, genVars, binVars>>

\* SANDBOX_PIDS.lock().unwrap() in register_pid (here = "reg_lock") and in
\* unregister_pid, called by the guard's Drop (here = "registered"): the guard
\* is taken, or the thread panics because the mutex is poisoned.
GuardLock(g, here, held) ==
    /\ ThreadsRun /\ tpc[g] = here
    /\ MutexLock(g)
    /\ IF poisoned
       THEN tpc' = [tpc EXCEPT ![g] = "panicked"] /\ UNCHANGED holders
       ELSE tpc' = [tpc EXCEPT ![g] = held] /\ holders' = holders \cup {g}
    /\ UNCHANGED <<procs, SANDBOX_PIDS, INIT, sigpc, program, poisoned, swallowed, lifeRest>>
    /\ UNCHANGED <<patchVars, ffVars, rpcVars, genVars, binVars>>

\* .insert(pid) under the guard. HashSet::insert panics when the table cannot
\* grow (capacity overflow): the guard is dropped by the unwinding, which
\* poisons the mutex.
GuardInsert(g) ==
    /\ ThreadsRun /\ tpc[g] = "reg_held"
    /\ \/ /\ SANDBOX_PIDS' = register_pid(GuardPid(g))
          /\ tpc' = [tpc EXCEPT ![g] = "reg_unlock"]
          /\ UNCHANGED <<holders, poisoned>>
       \/ /\ tpc' = [tpc EXCEPT ![g] = "panicked"]
          /\ holders' = holders \ {g}
          /\ poisoned' = TRUE
          /\ UNCHANGED SANDBOX_PIDS
    /\ UNCHANGED <<procs, INIT, sigpc, program, swallowed, lifeRest>>
    /\ UNCHANGED <<patchVars, ffVars, rpcVars, genVars, binVars>>

\* .remove(&pid) under the guard.
GuardRemove(g) ==
    /\ ThreadsRun /\ tpc[g] = "unreg_held"
    /\ SANDBOX_PIDS' = unregister_pid(GuardPid(g))
    /\ tpc' = [tpc EXCEPT ![g] = "unreg_unlock"]
    /\ UNCHANGED <<procs, INIT, sigpc, program, holders, poisoned, swallowed, lifeRest>>
    /\ UNCHANGED <<patchVars, ffVars, rpcVars, genVars, binVars>>

\* The temporary MutexGuard is dropped at the end of the statement.
GuardUnlock(g, here, next) ==
    /\ ThreadsRun /\ tpc[g] = here
    /\ holders' = holders \ {g}
    /\ tpc' = [tpc EXCEPT ![g] = next]
    /\ UNCHANGED <<procs, SANDBOX_PIDS, INIT, sigpc, program, poisoned, swallowed, lifeRest>>
    /\ UNCHANGED <<patchVars, ffVars, rpcVars, genVars, binVars>>

\* kill_all_sandboxes is due in thread t: the atexit hooks run, or
\* sigint.recv() has returned.
SweepDue(t) ==
    IF t = ExitThread THEN program = "exiting" ELSE ThreadsRun /\ sigpc = "killing"

\* kill_all_sandboxes: let Ok(pids) = SANDBOX_PIDS.lock() else { return; }.
SweepLock(t) ==
    /\ SweepDue(t) /\ tpc[t] = "idle"
    /\ MutexLock(t)
    /\ IF poisoned
       THEN /\ procs' = swallow_lock_error
            /\ tpc' = [tpc EXCEPT ![t] = "swept"]
            /\ swallowed' = swallowed \cup {t}
            /\ UNCHANGED holders
       ELSE /\ tpc' = [tpc EXCEPT ![t] = "sweep_held"]
            /\ holders' = holders \cup {t}
            /\ UNCHANGED <<procs, swallowed>>
    /\ UNCHANGED <<SANDBOX_PIDS, INIT, sigpc, program, poisoned, lifeRest>>
    /\ UNCHANGED <<patchVars, ffVars, rpcVars, genVars, binVars>>

\* kill_all_sandboxes: for &pid in pids.iter() { libc::kill(pid, SIGKILL) }.
SweepKill(t) ==
    /\ SweepDue(t) /\ tpc[t] = "sweep_held"
    /\ procs' = kill_all_sandboxes
    /\ tpc' = [tpc EXCEPT ![t] = "sweep_unlock"]
    /\ UNCHANGED <<SANDBOX_PIDS, INIT, sigpc, program, holders, poisoned, swallowed, lifeRest>>
    /\ UNCHANGED <<patchVars, ffVars, rpcVars, genVars, binVars>>

\* kill_all_sandboxes returns: `pids` goes out of scope.
SweepUnlock(t) ==
    /\ SweepDue(t) /\ tpc[t] = "sweep_unlock"
    /\ holders' = holders \ {t}
    /\ tpc' = [tpc EXCEPT ![t] = "swept"]
    /\ UNCHANGED <<procs, SANDBOX_PIDS, INIT, sigpc, program, poisoned, swallowed, lifeRest>>
    /\ UNCHANGED <<patchVars, ffVars, rpcVars, genVars, binVars>>

\* After kill_all_sandboxes: cleanup_remaining_sandboxes returns and the program
\* is gone; the signal thread goes on to re-raise the signal.
SweepDone(t) ==
    /\ SweepDue(t) /\ tpc[t] = "swept"
    /\ tpc' = [tpc EXCEPT ![t] = "done"]
    /\ IF t = ExitThread
       THEN program' = "exited" /\ UNCHANGED sigpc
       ELSE sigpc' = "reraise" /\ UNCHANGED program
    /\ UNCHANGED <<procs, SANDBOX_PIDS, INIT, holders, poisoned, swallowed, lifeRest>>
    /\ UNCHANGED <<patchVars, ffVars, rpcVars, genVars, binVars>>

\* SpecRegistry: the threads of one program that use SANDBOX_PIDS, step by step
\* of their use of its mutex, with normal termination and SIGINT.
InitRegistry ==
    /\ IdleLife /\ IdlePatch /\ IdleFF /\ IdleRpc /\ IdleGenesis /\ IdleBinary
    /\ tpc = [t \in RegThreads |-> "idle"]
    /\ holders = {}
    /\ poisoned = FALSE
    /\ swallowed = {}

NextRegistry ==
    \/ \E g \in Guards : GuardNew(g)
    \/ \E g \in Guards : GuardLock(g, "reg_lock", "reg_held")
    \/ \E g \in Guards : GuardInsert(g)
    \/ \E g \in Guards : GuardUnlock(g, "reg_unlock", "registered")
    \/ \E g \in Guards : GuardLock(g, "registered", "unreg_held")
    \/ \E g \in Guards : GuardRemove(g)
    \/ \E g \in Guards : GuardUnlock(g, "unreg_unlock", "dropped")
    \/ \E t \in Sweepers : SweepLock(t)
    \/ \E t \in Sweepers : SweepKill(t)
    \/ \E t \in Sweepers : SweepUnlock(t)
    \/ \E t \in Sweepers : SweepDone(t)
    \/ ProgramExit
    \/ SignalThreadInstall
    \/ Sigint
    \/ HandlerReraise

SpecRegistry == InitRegistry /\ [][NextRegistry]_vars

\* Thread t is between taking and dropping the guard: it reads or writes the
\* set.
InCriticalSection(t) ==
    tpc[t] \in {"reg_held", "reg_unlock", "unreg_held", "unreg_unlock", "sweep_held",
                "sweep_unlock"}

\* Thread t is about to call lock().
AtLock(t) ==
    \/ t \in Guards /\ tpc[t] = "reg_lock"
    \/ t \in Sweepers /\ tpc[t] = "idle" /\ SweepDue(t)

\* C28: the set is read and written under its mutex only, by one thread at a
\* time, so no thread sees the set while another is changing it; no thread
\* calls lock() while it holds the guard; and whenever a thread waits for the
\* mutex, another thread holds it and can go on to release it: no interleaving
\* of register, unregister, the exit hook and the interrupt handler deadlocks.
C28_PidSetUnderOneMutexNoDeadlock ==
    /\ Cardinality(holders) <= 1
    /\ \A t \in RegThreads :
          /\ InCriticalSection(t) <=> t \in holders
          /\ AtLock(t) => t \notin holders
          /\ (AtLock(t) /\ ThreadsRun /\ holders # {}) =>
                \E h \in holders : h # t /\ InCriticalSection(h)
    /\ \A t \in Sweepers : \A g \in Guards :
          tpc[t] = "sweep_held" => tpc[g] \notin {"reg_held", "unreg_held"}

\* The exit hook holds the guard after the pid of one thread was registered,
\* while the other thread waits in register_pid and the interrupt handler waits
\* in kill_all_sandboxes.
C28_Witness ==
    /\ holders = {ExitThread} /\ tpc[ExitThread] = "sweep_held"
    /\ AtLock(SignalThread)
    /\ \E g \in Guards : AtLock(g)
    /\ SANDBOX_PIDS # {}

\* One step seen from the sweep of thread t.
C29_Step(t) ==
    \* a sweep that finds the mutex poisoned returns at once
    /\ (tpc[t] = "idle" /\ tpc'[t] # "idle" /\ poisoned) => t \in swallowed'
    \* and has signalled nobody and changed nothing
    /\ (t \notin swallowed /\ t \in swallowed') =>
          /\ procs' = procs /\ SANDBOX_PIDS' = SANDBOX_PIDS /\ holders' = holders
          /\ tpc'[t] = "swept"
    \* after which the exit, or the re-delivery of the signal, is the next step
    /\ (t \in swallowed /\ tpc[t] = "swept" /\ tpc'[t] # "swept") =>
          IF t = ExitThread THEN program' = "exited" ELSE sigpc' = "reraise"

\* C29: when kill_all_sandboxes cannot take the lock of the set, it returns
\* without having signalled any process, without a panic and without a report,
\* and the program's exit, or the re-delivery of the signal, goes on.
C29_LockFailureSwallowed ==
    /\ [](\A t \in Sweepers :
            /\ tpc[t] # "panicked"
            /\ (t \in swallowed /\ tpc[t] = "swept" /\ SweepDue(t)) => ENABLED SweepDone(t))
    /\ [][\A t \in Sweepers : C29_Step(t)]_vars

\* The program has exited after an exit hook that found the mutex poisoned: the
\* registered process is still running.
C29_Witness ==
    /\ ExitThread \in swallowed /\ program = "exited"
    /\ \E q \in SANDBOX_PIDS : procs[q].st = "starting"

\* ------------------------------------------------------------- RPC round trips

\* What comes back for a request: the transport fails or delivers a body; the
\* body is JSON or not; it has an "error" member or not; and its "result" member
\* is absent, or lacks the member the caller reads, or has that member with a
\* type the caller does not expect, or is as expected.
Responses ==
    [transport_ok : BOOLEAN, json : BOOLEAN, error : BOOLEAN,
     result : {"absent", "no_member", "wrong_type", "expected"}]

\* The functions that await send_request: PatchState::send (either of its two
\* sandbox_patch_state calls), process_initial_balance, the four fetch_*,
\* get_block_height, and fast_forward with its sandbox_fast_forward request and
\* with the get_block_height of its polling loop.
Callers ==
    {"send", "process_initial_balance", "fetch_account", "fetch_code", "fetch_storage",
     "fetch_access_keys", "get_block_height", "fast_forward", "fast_forward_poll"}

\* enum SandboxRpcError
RpcErrors == {"RequestError", "UnexpectedResponse", "SandboxRpcError"}

\* Sandbox::send_request: the error of the transport and of into_json are
\* returned with `?`, a body with an "error" member is
\* Err(SandboxRpcError(error.to_string())), and any other body is Ok(body).
send_request(r) ==
    IF ~r.transport_ok THEN "RequestError"
    ELSE IF ~r.json THEN "RequestError"
    ELSE IF r.error THEN "SandboxRpcError"
    ELSE "Ok"

\* The callers with .get("result").ok_or(UnexpectedResponse).
ReadsResult == Callers \ {"send", "fast_forward"}

\* The callers that go on with .get(member).ok_or(UnexpectedResponse):
\* code_base64, values, keys, sync_info.latest_block_height.
ReadsMember ==
    {"fetch_code", "fetch_storage", "fetch_access_keys", "get_block_height",
     "fast_forward_poll"}

\* The callers that insist on the type of the member: as_u64().ok_or(..). The
\* others fall back: as_str().unwrap_or_default(), as_array().unwrap_or(&EMPTY).
ChecksType == {"get_block_height", "fast_forward_poll"}

\* What the caller does with the value of send_request(..).await: `?`, then the
\* reads of the body. The polling loop of fast_forward matches an Err of
\* get_block_height with `_ => continue`.
AfterResponse(c, r, ret) ==
    LET read == IF ret # "Ok" THEN ret
                ELSE IF c \in ReadsResult /\ r.result = "absent" THEN "UnexpectedResponse"
                ELSE IF c \in ReadsMember /\ r.result = "no_member" THEN "UnexpectedResponse"
                ELSE IF c \in ChecksType /\ r.result = "wrong_type" THEN "UnexpectedResponse"
                ELSE "Ok"
    IN  IF c = "fast_forward_poll" /\ read # "Ok" THEN "Continue" ELSE read

\* send_request returns.
SendRequestReturns ==
    /\ caller \in Callers /\ returned = "pending"
    /\ returned' = send_request(response)
    /\ UNCHANGED <<caller, response, outcome>>
    /\ UNCHANGED <<lifeVars, patchVars, ffVars, regVars, genVars, binVars>>

\* The caller has dealt with what send_request returned.
CallerReturns ==
    /\ returned # "pending" /\ outcome = "pending"
    /\ outcome' = AfterResponse(caller, response, returned)
    /\ UNCHANGED <<caller, response, returned>>
    /\ UNCHANGED <<lifeVars, patchVars, ffVars, regVars, genVars, binVars>>

\* SpecRpc: one round trip of any caller, with any response.
InitRpc ==
    /\ IdleLife /\ IdlePatch /\ IdleFF /\ IdleRegistry /\ IdleGenesis /\ IdleBinary
    /\ caller \in Callers
    /\ response \in Responses
    /\ returned = "pending" /\ outcome = "pending"

NextRpc == SendRequestReturns \/ CallerReturns

SpecRpc == InitRpc /\ [][NextRpc]_vars

\* The body is not a JSON-RPC response the caller can use: it is not JSON, it
\* has no "result", or its result is not of the shape the caller reads.
Malformed(c, r) ==
    \/ ~r.json
    \/ r.result = "absent"
    \/ c \in ReadsMember /\ r.result \in {"no_member", "wrong_type"}

\* C21: a round trip whose transport fails, or whose response is malformed or
\* has an "error" member, ends with a SandboxRpcError (for the polling loop of
\* fast_forward: with another iteration) and never with Ok; a response with an
\* "error" member is never taken for a success.
C21_FailedRoundTripIsNeverOk ==
    outcome # "pending" =>
        /\ (~response.transport_ok \/ Malformed(caller, response) \/ response.error)
              => outcome \in RpcErrors \cup {"Continue"}
        /\ (response.transport_ok /\ response.json /\ response.error) => outcome # "Ok"

\* ----------------------------------------------------------------- patch data

AccountIds == {"a.test", "b.test"}

\* PatchState.destination_account.
destination_account == "a.test"

Balances == 0..MaxBalance

NoBalance == -1

\* A NearToken serialised with serde: the yoctoNEAR amount as a decimal string.
Yocto(b) == [repr |-> "yocto", v |-> b]

\* A NearToken formatted with Display (to_string): the amount in NEAR, rounded,
\* with a unit. The yoctoNEAR amounts of the model are all far below the
\* rounding step: Display prints one text for 0 and one other text for the rest.
Display(b) == [repr |-> "display", v |-> IF b = 0 THEN 0 ELSE 1]

NoAmount == [repr |-> "none", v |-> 0]

\* A serde_json::Value. An account view is an object with an "amount" member;
\* its other members are summed up in `rest`. Any other value is `rest` alone.
AccountView(amount, rest) == [amount |-> amount, rest |-> rest]

Json(rest) == [amount |-> NoAmount, rest |-> rest]

\* enum StateRecord, one constructor per variant that the builder produces.
Account(id, account) ==
    [kind |-> "Account", account_id |-> id, key |-> "", value |-> account]

Data(id, data_key, value) ==
    [kind |-> "Data", account_id |-> id, key |-> data_key, value |-> Json(value)]

Contract(id, code) ==
    [kind |-> "Contract", account_id |-> id, key |-> "", value |-> Json(code)]

AccessKey(id, public_key, access_key) ==
    [kind |-> "AccessKey", account_id |-> id, key |-> public_key,
     value |-> Json(access_key)]

ReceivedData(id, data_id, data) ==
    [kind |-> "ReceivedData", account_id |-> id, key |-> data_id, value |-> Json(data)]

PostponedReceipt(receipt) ==
    [kind |-> "PostponedReceipt", account_id |-> "", key |-> "", value |-> Json(receipt)]

\* What the remote endpoint of fetch_from serves for an account: the result of
\* view_account, the code_base64 of view_code, the values of view_state and the
\* keys of view_access_key_list.
RemoteAccount == AccountView(Yocto(MaxBalance), "h0")

RemoteStorage == <<[key |-> "k1", value |-> "v1"], [key |-> "k2", value |-> "v2"]>>

RemoteCode == "c1"

RemoteAccessKeys == <<[public_key |-> "pk1", access_key |-> "FullAccess"]>>

\* The endpoints: an account without code, storage and access keys, and one
\* that has them all.
RemoteStates ==
    { [account |-> RemoteAccount, code_base64 |-> "", values |-> <<>>, keys |-> <<>>],
      [account |-> RemoteAccount, code_base64 |-> RemoteCode, values |-> RemoteStorage,
       keys |-> RemoteAccessKeys] }

\* The arguments the builder methods are called with.
AccountArgs == {AccountView(Yocto(b), "h0") : b \in Balances}

StorageArgs == {[key |-> "k1", value |-> "v1"], [key |-> "k1", value |-> "v2"]}

StorageEntriesArgs == {<<>>, <<[key |-> "k1", value |-> "v1"], [key |-> "k1", value |-> "v2"]>>}

StateRecordArgs == {Account("b.test", AccountView(Yocto(0), "h0")), PostponedReceipt("r1")}

\* FetchData::new (and FetchData::NONE).
FetchDataNew ==
    [fetch_account |-> FALSE, fetch_storage |-> FALSE, fetch_code |-> FALSE,
     fetch_access_keys |-> FALSE]

\* FetchData::account, storage, code and access_keys: the setter of `flag`.
FetchDataSet(fd, flag) == [fd EXCEPT ![flag] = TRUE]

FetchDataFlags == {"fetch_account", "fetch_storage", "fetch_code", "fetch_access_keys"}

\* The chains of setters a caller writes: every selection of flags, in every
\* order.
SetterChains ==
    {c \in UNION {[1..n -> FetchDataFlags] : n \in 0..Cardinality(FetchDataFlags)} :
        \A i, j \in 1..Len(c) : i # j => c[i] # c[j]}

\* FetchData::new().f1().f2()...
RECURSIVE FetchDataOf(_)
FetchDataOf(chain) ==
    IF chain = <<>> THEN FetchDataNew
    ELSE FetchDataSet(FetchDataOf(SubSeq(chain, 1, Len(chain) - 1)), chain[Len(chain)])

\* The FetchData values fetch_from is called with.
FetchDataArgs == {FetchDataOf(c) : c \in SetterChains}

\* One RPC round trip, as it is logged: the endpoint, the method, and for
\* sandbox_patch_state the records and whether this is the request or the reply.
Rpc(to, method, phase, recs) ==
    [to |-> to, method |-> method, phase |-> phase, records |-> recs]

\* ------------------------------------------------------------- patch builder

Building(n) == spc = "Building" /\ Len(state) + n <= MaxRecords

\* A builder method that puts its records in front of the accumulated ones.
PushFront(recs) ==
    /\ state' = recs \o state
    /\ UNCHANGED <<initial_balance, spc, records, rpcLog, node, pre, queried>>
    /\ UNCHANGED <<lifeVars, ffVars, fetchVars, rpcVars, regVars, genVars, binVars>>

\* self.state.push(record) / self.state.extend(records), and nothing else.
Push(recs) ==
    /\ state' = state \o recs
    /\ UNCHANGED <<initial_balance, spc, records, rpcLog, node, pre, queried>>
    /\ UNCHANGED <<lifeVars, ffVars, fetchVars, rpcVars, regVars, genVars, binVars>>

\* PatchState::account
account(acc) ==
    /\ Building(1)
    /\ Push(<<Account(destination_account, acc)>>)

\* PatchState::storage
storage(e) ==
    /\ Building(1)
    /\ Push(<<Data(destination_account, e.key, e.value)>>)

\* PatchState::storage_entries
storage_entries(entries) ==
    /\ Building(Len(entries))
    /\ Push([i \in 1..Len(entries) |->
                Data(destination_account, entries[i].key, entries[i].value)])

\* PatchState::code
code(code_base64) ==
    /\ Building(1)
    /\ Push(<<Contract(destination_account, code_base64)>>)

\* PatchState::access_key
access_key(public_key, ak) ==
    /\ Building(1)
    /\ Push(<<AccessKey(destination_account, public_key, ak)>>)

\* PatchState::with_default_access_key
with_default_access_key ==
    /\ Building(1)
    /\ Push(<<AccessKey(destination_account, "DEFAULT_GENESIS_ACCOUNT_PUBLIC_KEY",
                        "FullAccess")>>)

\* PatchState::received_data
received_data(data_id, data) ==
    /\ Building(1)
    /\ Push(<<ReceivedData(destination_account, data_id, data)>>)

\* PatchState::state_record
state_record(r) ==
    /\ Building(1)
    /\ Push(<<r>>)

\* PatchState::initial_balance
set_initial_balance(balance) ==
    /\ spc = "Building"
    /\ initial_balance' = balance
    /\ UNCHANGED <<state, spc, records, rpcLog, node, pre, queried>>
    /\ UNCHANGED <<lifeVars, ffVars, fetchVars, rpcVars, regVars, genVars, binVars>>

\* The four ifs in the order the fields of FetchData are declared.
QueriesInFieldOrder(fetch_data) ==
    (IF fetch_data.fetch_account THEN <<"view_account">> ELSE <<>>)
    \o (IF fetch_data.fetch_storage THEN <<"view_state">> ELSE <<>>)
    \o (IF fetch_data.fetch_code THEN <<"view_code">> ELSE <<>>)
    \o (IF fetch_data.fetch_access_keys THEN <<"view_access_key_list">> ELSE <<>>)

\* fetch_from_account: the request types of the queries it makes, one per flag
\* that is set, in the order of its four ifs: fetch_account, fetch_code,
\* fetch_storage, fetch_access_keys.
Queries(fetch_data) ==
    (IF fetch_data.fetch_account THEN <<"view_account">> ELSE <<>>)
    \o (IF fetch_data.fetch_code THEN <<"view_code">> ELSE <<>>)
    \o (IF fetch_data.fetch_storage THEN <<"view_state">> ELSE <<>>)
    \o (IF fetch_data.fetch_access_keys THEN <<"view_access_key_list">> ELSE <<>>)

\* A fetch_code that stages nothing for an account without code.
ResponseRecordsNoEmptyCode(request_type) ==
    CASE request_type = "view_account" ->
            <<Account(destination_account, remote.account)>>
      [] request_type = "view_code" ->
            IF remote.code_base64 = "" THEN <<>>
            ELSE <<Contract(destination_account, remote.code_base64)>>
      [] request_type = "view_state" ->
            [i \in 1..Len(remote.values) |->
                Data(destination_account, remote.values[i].key, remote.values[i].value)]
      [] request_type = "view_access_key_list" ->
            [i \in 1..Len(remote.keys) |->
                AccessKey(destination_account, remote.keys[i].public_key,
                          remote.keys[i].access_key)]

\* fetch_account, fetch_code, fetch_storage and fetch_access_keys, after the
\* response: the records each of them stages, for the destination account.
\* self.account(result); self.code(code_base64); self.storage_entries(values);
\* self.access_key(public_key, access_key) for every key.
ResponseRecords(request_type) ==
    CASE request_type = "view_account" ->
            <<Account(destination_account, remote.account)>>
      [] request_type = "view_code" ->
            <<Contract(destination_account, remote.code_base64)>>
      [] request_type = "view_state" ->
            [i \in 1..Len(remote.values) |->
                Data(destination_account, remote.values[i].key, remote.values[i].value)]
      [] request_type = "view_access_key_list" ->
            [i \in 1..Len(remote.keys) |->
                AccessKey(destination_account, remote.keys[i].public_key,
                          remote.keys[i].access_key)]

\* The records a run of successful queries stages, query by query.
RECURSIVE StagedBy(_)
StagedBy(queries) ==
    IF queries = <<>> THEN <<>>
    ELSE ResponseRecords(Head(queries)) \o StagedBy(Tail(queries))

FetchedRecords(fetch_data) == StagedBy(Queries(fetch_data))

\* A fetch that stages the records under the account they were fetched from.
RecordOwnerIsSource(source) == source

\* fetch_account, fetch_code, fetch_storage and fetch_access_keys hand what they
\* fetched to self.account, self.code, self.storage_entries and self.access_key,
\* which write self.destination_account into the record; the account queried
\* appears in the requests only.
RecordOwner(source) == destination_account

\* The records as the builder methods stage them for account id.
OwnedBy(recs, id) == [i \in 1..Len(recs) |-> [recs[i] EXCEPT !.account_id = id]]

\* A query of fetch_from_account: what is asked, about which account, and
\* whether send_request returned a response with a result.
Query(request_type, account_id, ok) ==
    [request_type |-> request_type, account_id |-> account_id, ok |-> ok]

\* The queries go on after the one that failed.
SentDespiteFailure(queries, n) == queries

\* The queries sent when the n-th is the first to fail: `?` returns at once.
SentUntilFailure(queries, n) == SubSeq(queries, 1, n)

\* PatchState::fetch_from_account (and fetch_from, which passes the destination
\* account): rpc.into_url()?, then the queries are made one after the other;
\* when all succeed their records are staged behind the records of the builder,
\* and the first one that fails ends the call with its error, the builder being
\* consumed.
fetch_from_account(account_id, fetch_data) ==
    /\ spc = "Building" /\ fetches < MaxFetches
    /\ last_fetch_data' = fetch_data
    /\ fetches' = fetches + 1
    /\ LET queries == Queries(fetch_data)
           sent(qs, n) == [i \in 1..Len(qs) |-> Query(qs[i], account_id, i # n)]
           failed == /\ spc' = "FetchFailed"
                     /\ state' = <<>>
                     /\ initial_balance' = NoBalance
       IN  \/ /\ state' = state \o OwnedBy(FetchedRecords(fetch_data), RecordOwner(account_id))
              /\ fetchLog' = fetchLog \o sent(queries, 0)
              /\ UNCHANGED <<initial_balance, spc>>
           \/ \E n \in 1..Len(queries) :
                /\ fetchLog' = fetchLog \o sent(SentUntilFailure(queries, n), n)
                /\ failed
           \/ /\ UNCHANGED fetchLog
              /\ failed
    /\ UNCHANGED <<records, rpcLog, node, pre, queried, remote>>
    /\ UNCHANGED <<lifeVars, ffVars, rpcVars, regVars, genVars, binVars>>

\* PatchState::fetch_from: the account fetched is the destination account.
fetch_from(fetch_data) == fetch_from_account(destination_account, fetch_data)

\* ------------------------------------------------------------ the sandbox node

\* The part of the node's state a record writes.
Slot(r) == <<r.kind, r.account_id, r.key>>

\* The node applies a patch record by record; a record replaces what its slot
\* held.
RECURSIVE ApplyPatch(_, _)
ApplyPatch(st, recs) ==
    IF recs = <<>> THEN st
    ELSE ApplyPatch({r \in st : Slot(r) # Slot(Head(recs))} \cup {Head(recs)}, Tail(recs))

\* The node patches accounts, access keys, contracts and data, and reads
\* amounts as decimal yoctoNEAR strings; it refuses anything else.
NodeAccepts(recs) ==
    \A i \in 1..Len(recs) :
        /\ recs[i].kind \in {"Account", "AccessKey", "Contract", "Data"}
        /\ recs[i].kind = "Account" => recs[i].value.amount.repr = "yocto"

\* query view_account: the account views the node holds for the account (one or
\* none).
ViewAccount(st, id) == {r.value : r \in {x \in st : x.kind = "Account" /\ x.account_id = id}}

\* The node starts work on the next block: it takes the patch that is waiting.
\* From here on sandbox_patch_state reports the patch as done.
NodeTakePatch ==
    /\ spc \in {"FirstWait", "SecondCall", "SecondWait", "Ok", "Queried"}
    /\ node.pending # <<>> /\ node.applying = <<>>
    /\ node' = [node EXCEPT !.applying = node.pending, !.pending = <<>>]
    /\ UNCHANGED <<state, initial_balance, spc, records, rpcLog, pre, queried>>
    /\ UNCHANGED <<lifeVars, ffVars, fetchVars, rpcVars, regVars, genVars, binVars>>

\* The block is done: the patch it carried is visible to queries.
NodeCommit ==
    /\ spc \in {"FirstWait", "SecondCall", "SecondWait", "Ok", "Queried"}
    /\ node.applying # <<>>
    /\ node' = [node EXCEPT !.committed = ApplyPatch(node.committed, node.applying),
                            !.applying = <<>>]
    /\ UNCHANGED <<state, initial_balance, spc, records, rpcLog, pre, queried>>
    /\ UNCHANGED <<lifeVars, ffVars, fetchVars, rpcVars, regVars, genVars, binVars>>

\* ------------------------------------------------------------ PatchState::send

\* records.iter_mut().find_map(..): the index of the first Account record, of
\* whatever account (0: there is none).
FirstAccountIndex(recs) ==
    IF \E i \in 1..Len(recs) : recs[i].kind = "Account"
    THEN CHOOSE i \in 1..Len(recs) :
            /\ recs[i].kind = "Account"
            /\ \A j \in 1..(i - 1) : recs[j].kind # "Account"
    ELSE 0

\* The staged record is moved to the front as it is modified.
ModifiedAndMovedFirst(recs, i, balance) ==
    <<[recs[i] EXCEPT !.value.amount = Yocto(balance)]>>
        \o SubSeq(recs, 1, i - 1) \o SubSeq(recs, i + 1, Len(recs))

\* An initial_balance that leaves the staged Account record as it is.
ModifyNothing(recs, i, balance) == recs

\* obj["amount"] = json!(balance) on the staged Account record. (Account values
\* are objects with an "amount" member.)
ModifyExisting(recs, i, balance) ==
    [recs EXCEPT ![i].value.amount = Yocto(balance)]

\* The fetched record is pushed instead of inserted at 0.
FetchedPushedLast(recs, result, balance) ==
    recs \o <<Account(destination_account, [result EXCEPT !.amount = Display(balance)])>>

\* obj["amount"] = json!(balance.to_string()) on the result of view_account,
\* then records.insert(0, Account { destination_account, result }).
FetchedInsertedFirst(recs, result, balance) ==
    <<Account(destination_account, [result EXCEPT !.amount = Display(balance)])>> \o recs

\* The records are sent last pushed first.
StateReversed(st) == [i \in 1..Len(st) |-> st[Len(st) + 1 - i]]

\* No initial_balance: `self.state`.
StateAsIs(st) == st

\* send, up to the first sandbox_patch_state: `records` is the state, or what
\* process_initial_balance makes of it, which asks the sandbox for the account
\* when no Account record is staged and fails when that query does.
SendBegin ==
    /\ spc = "Building"
    /\ IF initial_balance = NoBalance
       THEN /\ records' = StateAsIs(state)
            /\ spc' = "FirstCall"
            /\ UNCHANGED rpcLog
       ELSE IF FirstAccountIndex(state) # 0
       THEN /\ records' = ModifyExisting(state, FirstAccountIndex(state), initial_balance)
            /\ spc' = "FirstCall"
            /\ UNCHANGED rpcLog
       ELSE /\ rpcLog' = Append(rpcLog, Rpc("sandbox", "view_account", "request", <<>>))
            /\ \/ \E result \in ViewAccount(node.committed, destination_account) :
                    /\ records' = FetchedInsertedFirst(state, result, initial_balance)
                    /\ spc' = "FirstCall"
               \/ /\ spc' = "Err"
                  /\ UNCHANGED records
    /\ UNCHANGED <<state, initial_balance, node, pre, queried>>
    /\ UNCHANGED <<lifeVars, ffVars, fetchVars, rpcVars, regVars, genVars, binVars>>

\* The first call sends the records as they were staged.
FirstCallStaged == state

\* The payload of the first and of the second sandbox_patch_state.
FirstCallRecords == records

\* The second call sends the records as they were staged.
SecondCallStaged == state

SecondCallRecords == records

\* send returns after the first call.
ReturnOk == "Ok"

\* Where send goes on after the first call has completed.
AfterFirstCall == "SecondCall"

\* A send that goes on to the second call when the first one failed.
OnErrorGoOn(here) == IF here = "FirstCall" THEN "SecondCall" ELSE "Err"

\* send_request(..).await?: an Err of either call is returned by send.
OnError(here) == "Err"

\* send_request(sandbox_patch_state, recs): the request reaches the node, which
\* queues the patch, or refuses it, or the transport fails.
PatchRequest(here, recs, wait) ==
    /\ spc = here
    /\ \/ /\ NodeAccepts(recs)
          /\ node' = [node EXCEPT !.pending = @ \o recs]
          /\ rpcLog' = Append(rpcLog, Rpc("sandbox", "sandbox_patch_state", "request", recs))
          /\ spc' = wait
       \/ /\ ~NodeAccepts(recs)
          /\ rpcLog' = Append(rpcLog, Rpc("sandbox", "sandbox_patch_state", "request", recs))
          /\ spc' = OnError(here)
          /\ UNCHANGED node
       \/ /\ spc' = OnError(here)
          /\ UNCHANGED <<node, rpcLog>>
    /\ UNCHANGED <<state, initial_balance, records, pre, queried>>
    /\ UNCHANGED <<lifeVars, ffVars, fetchVars, rpcVars, regVars, genVars, binVars>>

\* The node answers sandbox_patch_state once the patch has been taken.
PatchReply(here, next) ==
    /\ spc = here
    /\ node.pending = <<>>
    /\ rpcLog' = Append(rpcLog, Rpc("sandbox", "sandbox_patch_state", "reply", <<>>))
    /\ spc' = next
    /\ UNCHANGED <<state, initial_balance, records, node, pre, queried>>
    /\ UNCHANGED <<lifeVars, ffVars, fetchVars, rpcVars, regVars, genVars, binVars>>

FirstPatchRequest == PatchRequest("FirstCall", FirstCallRecords, "FirstWait")

FirstPatchReply == PatchReply("FirstWait", AfterFirstCall)

SecondPatchRequest == PatchRequest("SecondCall", SecondCallRecords, "SecondWait")

SecondPatchReply == PatchReply("SecondWait", "Ok")

\* The caller asks the sandbox for the destination account right after send
\* returned Ok.
QueryAfterSend ==
    /\ spc = "Ok"
    /\ queried' = ViewAccount(node.committed, destination_account)
    /\ spc' = "Queried"
    /\ UNCHANGED <<state, initial_balance, records, rpcLog, node, pre>>
    /\ UNCHANGED <<lifeVars, ffVars, fetchVars, rpcVars, regVars, genVars, binVars>>

\* --------------------------------------------------------- patch specification

\* What the sandbox holds before the patch: nothing, or the destination account.
NodeStates ==
    {{}} \cup {{Account(destination_account, AccountView(Yocto(b), "h1"))} : b \in Balances}

\* A new builder (PatchState::new) on a running sandbox.
InitPatch ==
    /\ IdleLife /\ IdleFF /\ IdleRpc /\ IdleRegistry /\ IdleGenesis /\ IdleBinary
    /\ state = <<>>
    /\ initial_balance = NoBalance
    /\ spc = "Building"
    /\ records = <<>>
    /\ rpcLog = <<>>
    /\ pre \in NodeStates
    /\ node = [committed |-> pre, applying |-> <<>>, pending |-> <<>>]
    /\ queried = {}
    /\ last_fetch_data = FetchDataNew
    /\ fetches = 0
    /\ fetchLog = <<>>
    /\ remote \in RemoteStates

\* SpecPatch fetches from the endpoint that has code, storage and access keys.
InitSend ==
    /\ InitPatch
    /\ remote.code_base64 = RemoteCode

NextPatch ==
    \/ \E acc \in AccountArgs : account(acc)
    \/ \E e \in StorageArgs : storage(e)
    \/ \E entries \in StorageEntriesArgs : storage_entries(entries)
    \/ code("c1")
    \/ access_key("pk1", "FullAccess")
    \/ with_default_access_key
    \/ received_data("d1", "")
    \/ \E r \in StateRecordArgs : state_record(r)
    \/ \E b \in Balances : set_initial_balance(b)
    \/ \E fd \in FetchDataArgs : Building(Len(FetchedRecords(fd))) /\ fetch_from(fd)
    \/ SendBegin
    \/ FirstPatchRequest
    \/ FirstPatchReply
    \/ SecondPatchRequest
    \/ SecondPatchReply
    \/ NodeTakePatch
    \/ NodeCommit
    \/ QueryAfterSend

SpecPatch == InitSend /\ [][NextPatch]_vars

\* SpecFetch: a builder chain with a fetch from either endpoint, for either
\* account and with any FetchData, followed by the start of send.
NextFetch ==
    \/ \E acc \in AccountArgs : account(acc)
    \/ \E e \in StorageArgs : storage(e)
    \/ with_default_access_key
    \/ \E id \in AccountIds, fd \in FetchDataArgs : fetch_from_account(id, fd)
    \/ SendBegin

SpecFetch == InitPatch /\ [][NextFetch]_vars

\* ------------------------------------------------------- AccountCreation::send

\* The account create_account clones: an account every sandbox has.
DEFAULT_ACCOUNT_FOR_CLONING == "sandbox"

\* AccountCreation.public_key: None, or the key the caller gave.
PublicKeyArgs == {"None", "pk2"}

NoPublicKey == "None"

\* AccountCreation::send, first half: patch_state(account_id) and
\* fetch_from_account(DEFAULT_ACCOUNT_FOR_CLONING, sandbox.rpc_addr,
\* FetchData::NONE.account()): the sandbox is asked for the account to clone,
\* and an error ends send.
AccountCreationFetch ==
    /\ state = <<>> /\ fetches = 0
    /\ fetch_from_account(DEFAULT_ACCOUNT_FOR_CLONING,
                          FetchDataSet(FetchDataNew, "fetch_account"))

\* AccountCreation::send, second half, up to the first sandbox_patch_state:
\* initial_balance(balance) if one was given, access_key(public_key, FullAccess)
\* or with_default_access_key(), and PatchState::send, whose
\* process_initial_balance finds the cloned Account record staged and sets its
\* amount in place. Nothing is awaited on the way.
AccountCreationSend(balance, public_key) ==
    /\ spc = "Building" /\ fetches = 1 /\ Len(state) = 1
    /\ LET key == IF public_key = NoPublicKey
                  THEN "DEFAULT_GENESIS_ACCOUNT_PUBLIC_KEY" ELSE public_key
           staged == state \o <<AccessKey(destination_account, key, "FullAccess")>>
       IN  /\ state' = staged
           /\ initial_balance' = balance
           /\ records' = IF balance = NoBalance THEN StateAsIs(staged)
                         ELSE ModifyExisting(staged, FirstAccountIndex(staged), balance)
    /\ spc' = "FirstCall"
    /\ UNCHANGED <<rpcLog, node, pre, queried>>
    /\ UNCHANGED <<lifeVars, ffVars, fetchVars, rpcVars, regVars, genVars, binVars>>

\* SpecCreate: one create_account(destination_account), with or without an
\* initial balance and a public key, sent to a sandbox, and a query for the
\* account after it.
NextCreate ==
    \/ AccountCreationFetch
    \/ \E balance \in Balances \cup {NoBalance}, public_key \in PublicKeyArgs :
            AccountCreationSend(balance, public_key)
    \/ FirstPatchRequest
    \/ FirstPatchReply
    \/ SecondPatchRequest
    \/ SecondPatchReply
    \/ NodeTakePatch
    \/ NodeCommit
    \/ QueryAfterSend

SpecCreate == InitPatch /\ [][NextCreate]_vars

\* ----------------------------------------------------------------- patch claims

\* send has computed its payload and not failed.
Sent == spc \in {"FirstCall", "FirstWait", "SecondCall", "SecondWait", "Ok", "Queried"}

SentOk == spc \in {"Ok", "Queried"}

PatchRequests ==
    SelectSeq(rpcLog, LAMBDA e : e.method = "sandbox_patch_state" /\ e.phase = "request")

PatchEvents == SelectSeq(rpcLog, LAMBDA e : e.method = "sandbox_patch_state")

ViewAccountEvents == SelectSeq(rpcLog, LAMBDA e : e.method = "view_account")

\* Every payload that was submitted is `recs`.
AllSubmitted(recs) == \A i \in 1..Len(PatchRequests) : PatchRequests[i].records = recs

\* The amount is a rendering of balance b.
Renders(amount, b) == amount = Yocto(b) \/ amount = Display(b)

\* C4: a successful send has made exactly two sandbox_patch_state calls, with
\* the same records, and the request of the second follows the reply to the
\* first.
C4_TwoIdenticalCallsInSequence ==
    SentOk =>
        PatchEvents = << Rpc("sandbox", "sandbox_patch_state", "request", records),
                         Rpc("sandbox", "sandbox_patch_state", "reply", <<>>),
                         Rpc("sandbox", "sandbox_patch_state", "request", records),
                         Rpc("sandbox", "sandbox_patch_state", "reply", <<>>) >>

\* send returned Ok for a batch whose staged Account record initial_balance
\* changed.
C4_Witness ==
    /\ spc = "Ok" /\ Len(records) >= 2 /\ records # state

\* The index of the last Account record for the account (0: there is none).
LastAccountIndex(recs, id) ==
    LET is == {i \in 1..Len(recs) : recs[i].kind = "Account" /\ recs[i].account_id = id}
    IN  IF is = {} THEN 0 ELSE CHOOSE i \in is : \A j \in is : j <= i

\* C5 as stated: after send returned Ok, the query for the destination account
\* returns the balance of every Account record of the payload for that account.
C5_QueryReturnsEveryStagedBalance ==
    spc = "Queried" =>
        \A i \in 1..Len(records) :
            (records[i].kind = "Account" /\ records[i].account_id = destination_account)
                => /\ queried # {}
                   /\ \A v \in queried : v.amount = records[i].value.amount

\* C5: after send returned Ok, the query for the destination account finds it
\* and returns the balance of the last Account record of the payload for that
\* account, whether or not the node has finished the second patch.
C5_QueryReturnsLastBalance ==
    spc = "Queried" =>
        LET i == LastAccountIndex(records, destination_account)
        IN  i # 0 => /\ queried # {}
                     /\ \A v \in queried : v.amount = records[i].value.amount

\* The query was answered while the node was still applying the second patch,
\* and the balance it returned is not the one the node held before send.
C5_Witness ==
    /\ spc = "Queried" /\ node.applying # <<>>
    /\ LastAccountIndex(records, destination_account) # 0
    /\ queried # ViewAccount(pre, destination_account)

\* C6: with no initial_balance the records submitted are the accumulated
\* records, in accumulation order.
C6_OrderPreserved ==
    initial_balance = NoBalance =>
        /\ Sent => records = state
        /\ AllSubmitted(state)

\* A full batch that repeats a record was submitted twice as it is.
C6_Witness ==
    /\ initial_balance = NoBalance /\ spc = "Ok"
    /\ Len(state) = MaxRecords /\ state[1] = state[2] /\ state[2] # state[3]
    /\ Len(PatchRequests) = 2

\* C7: with initial_balance set and no Account record staged, send asks the
\* sandbox for the destination account, and what it submits is that account
\* with its amount overwritten, followed by the accumulated records.
C7_FetchedAccountInsertedFirst ==
    (initial_balance # NoBalance /\ FirstAccountIndex(state) = 0) =>
        LET expected(r) ==
                /\ Len(r) = Len(state) + 1
                /\ r[1].kind = "Account" /\ r[1].account_id = destination_account
                /\ \E result \in ViewAccount(pre, destination_account) :
                        r[1].value.rest = result.rest
                /\ Renders(r[1].value.amount, initial_balance)
                /\ Tail(r) = state
        IN  /\ Sent => expected(records)
            /\ \A i \in 1..Len(PatchRequests) : expected(PatchRequests[i].records)
            /\ (Sent \/ PatchRequests # <<>>) =>
                    ViewAccountEvents = <<Rpc("sandbox", "view_account", "request", <<>>)>>

\* The fetched account was submitted in front of two accumulated records.
C7_Witness ==
    /\ initial_balance # NoBalance /\ FirstAccountIndex(state) = 0
    /\ Len(state) >= 2
    /\ PatchRequests # <<>>
    /\ PatchRequests[1].records[1].value.rest = "h1"

FetchStep == fetches' = fetches + 1

\* The records the call staged and the queries it sent.
NewRecords == SubSeq(state', Len(state) + 1, Len(state'))

NewQueries == SubSeq(fetchLog', Len(fetchLog) + 1, Len(fetchLog'))

\* The flag that asks for a request type, and the kind of record it yields.
FlagOf(request_type) ==
    CASE request_type = "view_account" -> "fetch_account"
      [] request_type = "view_code" -> "fetch_code"
      [] request_type = "view_state" -> "fetch_storage"
      [] request_type = "view_access_key_list" -> "fetch_access_keys"

\* The place of a request type, and of a record kind, in the order account,
\* code, storage, access keys.
QueryRank(request_type) ==
    CASE request_type = "view_account" -> 1
      [] request_type = "view_code" -> 2
      [] request_type = "view_state" -> 3
      [] request_type = "view_access_key_list" -> 4

KindRank(kind) ==
    CASE kind = "Account" -> 1
      [] kind = "Contract" -> 2
      [] kind = "Data" -> 3
      [] kind = "AccessKey" -> 4
      [] OTHER -> 0

C18_Step ==
    LET fd == last_fetch_data'
    IN  \* only queries whose flag is set, each at most once, in the fixed order
        /\ \A i \in 1..Len(NewQueries) : fd[FlagOf(NewQueries[i].request_type)]
        /\ \A i, j \in 1..Len(NewQueries) :
              i < j => QueryRank(NewQueries[i].request_type)
                            < QueryRank(NewQueries[j].request_type)
        /\ spc' = "Building" =>
              \* every flag that is set had its query
              /\ \A f \in FetchDataFlags :
                    fd[f] => \E i \in 1..Len(NewQueries) : FlagOf(NewQueries[i].request_type) = f
              \* the records come behind the accumulated ones
              /\ Len(state') >= Len(state) /\ SubSeq(state', 1, Len(state)) = state
              \* they are of the kinds asked for, in the fixed order
              /\ \A i \in 1..Len(NewRecords) :
                    /\ KindRank(NewRecords[i].kind) # 0
                    /\ \E q \in 1..Len(NewQueries) :
                          QueryRank(NewQueries[q].request_type) = KindRank(NewRecords[i].kind)
              /\ \A i, j \in 1..Len(NewRecords) :
                    i < j => KindRank(NewRecords[i].kind) <= KindRank(NewRecords[j].kind)

\* C18: a fetch sends only the queries whose flag is set, in the order account,
\* code, storage, access keys, and when it succeeds it has sent them all and
\* staged their records in that order behind the records accumulated before,
\* whichever way the FetchData was put together.
C18_FetchIssuesFlaggedQueriesInFixedOrder == [][FetchStep => C18_Step]_vars

\* All four categories were fetched behind a full list of accumulated records.
C18_Witness ==
    /\ spc = "Building" /\ fetches = 1
    /\ \A f \in FetchDataFlags : last_fetch_data[f]
    /\ remote.code_base64 = RemoteCode
    /\ Len(state) = MaxRecords + 2 + Len(RemoteStorage) + Len(RemoteAccessKeys)
    /\ state[MaxRecords].kind = "Data"

\* The FetchData is FetchData::ALL.
IsAll(fd) == \A f \in FetchDataFlags : fd[f]

\* The new records of a kind, in the order they were staged.
NewOfKind(kind) == SelectSeq(NewRecords, LAMBDA r : r.kind = kind)

C19_Step ==
    LET accounts == NewOfKind("Account")
        contracts == NewOfKind("Contract")
        data == NewOfKind("Data")
        keys == NewOfKind("AccessKey")
    IN  /\ Len(NewRecords) = 2 + Len(remote.values) + Len(remote.keys)
        /\ \A i \in 1..Len(NewRecords) : NewRecords[i].account_id = destination_account
        \* one Account record: the remote account
        /\ Len(accounts) = 1 /\ accounts[1].value = remote.account
        \* one Contract record: the remote code, empty or not
        /\ Len(contracts) = 1 /\ contracts[1].value.rest = remote.code_base64
        \* the Data records are the remote pairs
        /\ Len(data) = Len(remote.values)
        /\ \A k \in 1..Len(remote.values) :
              /\ data[k].key = remote.values[k].key
              /\ data[k].value.rest = remote.values[k].value
        \* the AccessKey records are the remote keys
        /\ Len(keys) = Len(remote.keys)
        /\ \A k \in 1..Len(remote.keys) :
              /\ keys[k].key = remote.keys[k].public_key
              /\ keys[k].value.rest = remote.keys[k].access_key

C20_Step ==
    /\ \A i \in 1..Len(fetchLog') :
          ~fetchLog'[i].ok
              => (i = Len(fetchLog') /\ spc' = "FetchFailed")
    /\ spc' = "FetchFailed"
          => (state' = <<>> /\ records' = <<>> /\ rpcLog' = <<>>)
    /\ spc = "FetchFailed" => (spc' = "FetchFailed" /\ fetchLog' = fetchLog)

C20_FirstFetchErrorAbortsTheFetch == [][C20_Step]_vars

\* With everything asked for, the query for the code failed: the queries for
\* storage and access keys were not sent.
C20_Witness ==
    /\ spc = "FetchFailed" /\ IsAll(last_fetch_data)
    /\ Len(fetchLog) = 2
    /\ fetchLog[1].request_type = "view_account" /\ fetchLog[1].ok
    /\ fetchLog[2].request_type = "view_code" /\ ~fetchLog[2].ok

\* -------------------------------------------------------- create_account claims

\* C30: once create_account(id).initial_balance(b) has computed its batch, the
\* batch is the Account record for id, carrying balance b, followed by exactly
\* one FullAccess AccessKey record for id, with the key given or else the
\* default genesis key; that batch is what is submitted, and after send
\* returned Ok a query for id finds the account with balance b.
C30_CreatedAccountHasBalanceAndOneFullAccessKey ==
    (Sent /\ initial_balance # NoBalance) =>
        /\ Len(records) = 2
        /\ records[1].kind = "Account" /\ records[1].account_id = destination_account
        /\ records[1].value.amount = Yocto(initial_balance)
        /\ records[2].kind = "AccessKey" /\ records[2].account_id = destination_account
        /\ records[2].value = Json("FullAccess")
        /\ records[2].key \in {"DEFAULT_GENESIS_ACCOUNT_PUBLIC_KEY", "pk2"}
        /\ records[2] = state[2]
        /\ AllSubmitted(records)
        /\ spc = "Queried" =>
              /\ queried # {}
              /\ \A v \in queried : v.amount = Yocto(initial_balance)

\* An account was created with the default key and a balance that is not the
\* balance of the cloned account, and the query made after send returned it.
C30_Witness ==
    /\ spc = "Queried" /\ initial_balance # NoBalance
    /\ Yocto(initial_balance) # remote.account.amount
    /\ Len(records) = 2 /\ records[2].key = "DEFAULT_GENESIS_ACCOUNT_PUBLIC_KEY"
    /\ queried = {[remote.account EXCEPT !.amount = Yocto(initial_balance)]}
    /\ Len(PatchRequests) = 2

\* -------------------------------------------------------------- genesis.json

\* Width of the token amounts: u128 is modelled as SupplyBits bits.
SupplyBits == 3

\* Largest balance of an additional GenesisAccount, in yoctoNEAR.
MaxGenesisBalance == 2

\* Longest SandboxConfig.additional_accounts.
MaxAdditionalAccounts == 2

\* u128::MAX + 1
U128Modulus == 2 ^ SupplyBits

U128 == 0..(U128Modulus - 1)

DEFAULT_GENESIS_ACCOUNT == "sandbox"

DEFAULT_GENESIS_ACCOUNT_PUBLIC_KEY == "ed25519:5BGS"

\* NearToken::from_near(10_000), scaled to the width of the model.
DEFAULT_GENESIS_ACCOUNT_BALANCE == 1

\* struct GenesisAccount, without the private key (it goes to the key files).
GenesisAccount(account_id, public_key, balance) ==
    [account_id |-> account_id, public_key |-> public_key, balance |-> balance]

\* impl Default for GenesisAccount
GenesisAccountDefault ==
    GenesisAccount(DEFAULT_GENESIS_ACCOUNT, DEFAULT_GENESIS_ACCOUNT_PUBLIC_KEY,
                   DEFAULT_GENESIS_ACCOUNT_BALANCE)

\* The accounts a caller puts into additional_accounts.
AdditionalAccounts ==
    { GenesisAccount(id, "ed25519:AzBN", b) :
        id \in {"alice.near", "bob.near"}, b \in 0..MaxGenesisBalance }

AdditionalAccountLists ==
    UNION { [1..n -> AdditionalAccounts] : n \in 0..MaxAdditionalAccounts }

\* Value::String(n.to_string()) of a u128, and any other JSON value.
String(n) == [type |-> "string", n |-> n]

NotAString == [type |-> "other", n |-> 0]

\* u128::from_str(v.as_str().unwrap_or_default()).unwrap_or_default()
from_str_or_default(v) == IF v.type = "string" THEN v.n ELSE 0

\* The record pushed for the account itself.
GenesisAccountRecord(a) ==
    [kind |-> "Account", account_id |-> a.account_id, amount |-> Yocto(a.balance)]

\* The record pushed for its key.
GenesisAccessKeyRecord(a) ==
    [kind |-> "AccessKey", account_id |-> a.account_id,
     public_key |-> a.public_key, permission |-> "FullAccess"]

\* A record that neard init wrote (its validator).
InitialRecord == [kind |-> "Account", account_id |-> "test.near", amount |-> Yocto(0)]

\* genesis.json as neard init leaves it: an object with a total_supply string
\* and a records array.
InitialGenesis ==
    [total_supply : {String(n) : n \in U128},
     records : {<<>>, <<InitialRecord>>}]

\* SandboxConfig.additional_genesis. A member of the patch is <<>> when the
\* patch has no such member and <<v>> when it has it with value v.
NoAdditionalGenesis == [some |-> FALSE, total_supply |-> <<>>, records |-> <<>>]

AdditionalGenesis ==
    { NoAdditionalGenesis,
      \* {"epoch_length": 100}
      [some |-> TRUE, total_supply |-> <<>>, records |-> <<>>],
      \* {"records": [...]}
      [some |-> TRUE, total_supply |-> <<>>, records |-> << <<InitialRecord>> >>],
      \* {"total_supply": "0"}
      [some |-> TRUE, total_supply |-> <<String(0)>>, records |-> <<>>] }

\* json_patch::merge (RFC 7396) of an object into the genesis object: a member
\* of the patch replaces the member of the document, arrays included.
merge(doc, patch) ==
    [total_supply |-> IF patch.total_supply = <<>> THEN doc.total_supply
                      ELSE patch.total_supply[1],
     records      |-> IF patch.records = <<>> THEN doc.records
                      ELSE patch.records[1]]

\* for account in &accounts_to_add { total_supply += account.balance.as_yoctonear(); }
\* with overflow checks off.
RECURSIVE AddBalancesWrapping(_, _)
AddBalancesWrapping(total_supply, accounts) ==
    IF accounts = <<>> THEN total_supply
    ELSE AddBalancesWrapping((total_supply + Head(accounts).balance) % U128Modulus,
                             Tail(accounts))

\* One of the additions of that loop overflows u128.
RECURSIVE AddBalancesOverflows(_, _)
AddBalancesOverflows(total_supply, accounts) ==
    IF accounts = <<>> THEN FALSE
    ELSE \/ total_supply + Head(accounts).balance >= U128Modulus
         \/ AddBalancesOverflows(total_supply + Head(accounts).balance, Tail(accounts))

\* for account in &accounts_to_add { records_array.push(..); records_array.push(..); }
RECURSIVE PushAccounts(_, _)
PushAccounts(records_array, accounts) ==
    IF accounts = <<>> THEN records_array
    ELSE PushAccounts(records_array \o <<GenesisAccountRecord(Head(accounts)),
                                         GenesisAccessKeyRecord(Head(accounts))>>,
                      Tail(accounts))

\* fn overwrite_genesis, after genesis.json was read: the outcome and the file
\* it leaves. With overflow checks on, an overflowing sum panics before the
\* file is created.
overwrite_genesis(file, config, overflow_checks) ==
    LET total_supply == from_str_or_default(file.total_supply)
        accounts_to_add == <<GenesisAccountDefault>> \o config.additional_accounts
        pushed == [total_supply |->
                       String(AddBalancesWrapping(total_supply, accounts_to_add)),
                   records |-> PushAccounts(file.records, accounts_to_add)]
    IN  IF overflow_checks /\ AddBalancesOverflows(total_supply, accounts_to_add)
        THEN [result |-> "panic", file |-> file]
        ELSE [result |-> "Ok",
              file |-> IF config.additional_genesis.some
                       THEN merge(pushed, config.additional_genesis)
                       ELSE pushed]

\* set_sandbox_genesis_with_config up to the return of overwrite_genesis.
\* File::open or File::create may fail: the file stays as it was.
OverwriteGenesis ==
    /\ gresult = "pending"
    /\ \E overflow_checks \in BOOLEAN, io_ok \in BOOLEAN :
         LET r == IF io_ok THEN overwrite_genesis(genesis, gconfig, overflow_checks)
                  ELSE [result |-> "FileError", file |-> genesis]
         IN  /\ genesis' = r.file
             /\ gresult' = r.result
    /\ gprev' = genesis
    /\ UNCHANGED <<gconfig, lifeVars, patchVars, ffVars, rpcVars, regVars, binVars>>

\* SpecGenesis: one genesis write, over the files neard init can leave and the
\* configurations a caller can pass.
InitGenesis ==
    /\ IdleLife /\ IdlePatch /\ IdleFF /\ IdleRpc /\ IdleRegistry /\ IdleBinary
    /\ genesis \in InitialGenesis
    /\ gconfig \in [additional_accounts : AdditionalAccountLists,
                    additional_genesis : AdditionalGenesis]
    /\ gresult = "pending"
    /\ gprev = genesis

NextGenesis == OverwriteGenesis

SpecGenesis == InitGenesis /\ [][NextGenesis]_vars

\* a.balance summed over the accounts, as a number.
RECURSIVE SumOfBalances(_)
SumOfBalances(accounts) ==
    IF accounts = <<>> THEN 0
    ELSE Head(accounts).balance + SumOfBalances(Tail(accounts))

\* The sequence run occurs in recs as a contiguous block.
ContainsRun(recs, run) ==
    \E i \in 0..(Len(recs) - Len(run)) : SubSeq(recs, i + 1, i + Len(run)) = run

\* C31: after the genesis write the records hold, for the default genesis
\* account and then each additional account in configuration order, an Account
\* record with the configured balance immediately followed by a FullAccess
\* AccessKey record with its public key, and total_supply is the previous
\* total_supply plus the sum of these balances.
C31_GenesisHoldsAccountsAndSupply ==
    gresult = "Ok" =>
        LET accounts == <<GenesisAccountDefault>> \o gconfig.additional_accounts
        IN  /\ ContainsRun(genesis.records, PushAccounts(<<>>, accounts))
            /\ genesis.total_supply =
                   String(from_str_or_default(gprev.total_supply)
                          + SumOfBalances(accounts))

\* ------------------------------------------------- failed starts and ports

\* C32: whenever start has returned an error, no node process spawned by that
\* start call is still running and no port lock acquired by it is still held.
C32_FailedStartLeavesNoProcessAndNoLock ==
    \A s \in Starters :
        pc[s] = "Failed" =>
            /\ \A a \in Launches(s) : ~Alive(PidOf(s, a))
            /\ lock[s] = NoListeners

\* ------------------------------------------------------- errors of send()

\* The step is a first sandbox_patch_state call that fails: the node refuses
\* the records, or the request does not get through.
FirstCallFails ==
    /\ spc = "FirstCall" /\ spc' # "FirstCall"
    /\ ~(NodeAccepts(records) /\ Len(rpcLog') > Len(rpcLog))

\* The step is a failing balance lookup of process_initial_balance.
BalanceLookupFails ==
    /\ spc = "Building" /\ spc' # "Building"
    /\ Len(rpcLog') > Len(rpcLog)
    /\ records' = records

C33_Step ==
    /\ FirstCallFails => spc' = "Err"
    /\ BalanceLookupFails => (spc' = "Err" /\ PatchEvents' = <<>>)
    /\ spc = "Err" => (spc' = "Err" /\ rpcLog' = rpcLog /\ node' = node)
    /\ Len(PatchRequests') > 1 =>
            \E i \in 1..Len(PatchEvents') : PatchEvents'[i].phase = "reply"

\* C33: when the first sandbox_patch_state call of send fails, send returns the
\* error and the second call is never issued; when the balance lookup needed for
\* initial_balance fails, send returns the error and no sandbox_patch_state call
\* is issued at all.
C33_SendStopsAtFirstError ==
    [][C33_Step]_vars

\* send has failed in its first call, which the node refused: one request, no
\* reply.
C33_Witness ==
    /\ spc = "Err"
    /\ Len(PatchRequests) = 1
    /\ Len(PatchEvents) = 1
    /\ ~NodeAccepts(PatchRequests[1].records)

\* C34: with initial_balance(b) set, the batch passed to sandbox_patch_state
\* contains an Account record whose amount encodes exactly b, in the one
\* representation (the yoctoNEAR string) whether the record was staged before
\* send or fetched from the sandbox during send.
C34_PayloadCarriesBalanceInOneRepresentation ==
    (Sent /\ initial_balance # NoBalance) =>
        \E i \in 1..Len(records) :
            /\ records[i].kind = "Account"
            /\ records[i].value.amount = Yocto(initial_balance)

\* ------------------------------------------------- errors of fast_forward

C35_Step ==
    /\ (fpc = "GetInitialHeight" /\ fpc' = "Err")
            => (pending' = pending /\ ticks' = 0 /\ observed' = -1)
    /\ (fpc = "SendFastForward" /\ fpc' = "Err") => (ticks' = 0 /\ observed' = -1)
    /\ (fpc = "Polling" /\ fpc' # "Polling")
            => \/ fpc' = "Ok" /\ observed' >= target_height
               \/ fpc' = "Err" /\ ticks >= MaxTicks
    /\ fpc \in {"Ok", "Err"} => UNCHANGED <<fpc, ticks, observed>>

\* C35: fast_forward returns an error without issuing sandbox_fast_forward when
\* the initial height query fails, and returns an error without polling when
\* the sandbox_fast_forward call fails; a failed height query during polling is
\* ignored, and polling goes on until the target height is observed or the
\* timeout fires.
C35_FastForwardErrorsStopOrAreIgnored ==
    /\ [](fpc \in {"GetInitialHeight", "SendFastForward"} => (ticks = 0 /\ observed = -1))
    /\ [](fpc = "GetInitialHeight" => pending = 0)
    /\ [][C35_Step]_vars

\* The loop is still polling after iterations whose height queries all failed.
C35_Witness ==
    fpc = "Polling" /\ ticks > 1 /\ observed = -1

\* ---------------------------------------------------- RPC and network port

\* Start call s was configured with one port for both roles.
SamePortConfigured(s) == cfg[s].rpc # 0 /\ cfg[s].rpc = cfg[s].net

\* Start call s returned before its retry loop: the home directory could not be
\* configured, or the retry limit is 0.
FailedBeforeReserving(s) ==
    /\ pc[s] = "Failed"
    /\ \/ err[s] = "SandboxConfigError"
       \/ max_num_port_retries[s] = 0

C36_DistinctPorts ==
    \A s \in Starters :
        /\ pc[s] \in {"Launching", "Register", "AwaitingReady", "Ready", "Dropping"}
                => (lock[s].rpc # lock[s].net /\ lock[s].rpc # 0 /\ lock[s].net # 0)
        /\ \A a \in Launches(s) :
                Alive(PidOf(s, a)) => procs[PidOf(s, a)].rpc # procs[PidOf(s, a)].net
        /\ SamePortConfigured(s) =>
                /\ pc[s] \in {"ConfiguringHome", "BindRpc", "LockRpc", "BindNet", "Failed"}
                /\ Launches(s) = {}
                /\ (pc[s] = "Failed" /\ ~FailedBeforeReserving(s))
                        => err[s] \in {"BindError", "LockingError"}

C36_Step(s) ==
    (SamePortConfigured(s) /\ pc[s] = "BindNet" /\ pc'[s] # "BindNet")
        => (pc'[s] = "Failed" /\ err'[s] = "BindError")

\* C36: in every Ready instance the RPC port differs from the network port; a
\* start call configured with the same port for both fails with a bind or lock
\* error and launches no node.
C36_RpcAndNetworkPortsDiffer ==
    /\ []C36_DistinctPorts
    /\ [][\A s \in Starters : C36_Step(s)]_vars

\* A call configured with port 1 for both roles failed with a BindError while
\* the other call had not yet begun to reserve ports.
C36_Witness ==
    \E s, t \in Starters :
        /\ s # t /\ SamePortConfigured(s)
        /\ pc[s] = "Failed" /\ err[s] = "BindError"
        /\ pc[t] = "ConfiguringHome"

\* ------------------------------------------------- frame of the builder

\* The records of a are the first records of b, in the same order.
IsPrefix(a, b) == Len(a) <= Len(b) /\ SubSeq(b, 1, Len(a)) = a

C37_Step ==
    /\ (spc = "Building" /\ spc' = "Building") =>
            /\ IsPrefix(state, state')
            /\ state' # state => initial_balance' = initial_balance
            /\ initial_balance' # initial_balance => state' = state
    /\ spc # "Building" => (state' = state /\ initial_balance' = initial_balance)

\* C37: each accumulation method of the patch builder appends its records at
\* the end of the sequence and leaves every record accumulated before, their
\* order and the balance override unchanged; initial_balance changes only the
\* balance override.
C37_BuilderAppendsAndKeepsTheRest ==
    [][C37_Step]_vars

\* A chain that has staged records of different kinds, an override set, and
\* then one record more.
C37_Witness ==
    /\ spc = "Building" /\ initial_balance # NoBalance
    /\ Len(state) = MaxRecords
    /\ state[1].kind # state[2].kind
    /\ state[2].kind # state[MaxRecords].kind

\* ------------------------------------------------- owner of staged records

\* C38: every record appended by a builder method other than state_record,
\* records fetched by fetch_from_account from another account included, carries
\* the destination account of the builder as its account_id.
C38_StagedRecordsBelongToDestination ==
    /\ \A i \in 1..Len(state) : state[i].account_id = destination_account
    /\ \A i \in 1..Len(records) : records[i].account_id = destination_account

\* The builder holds records of several kinds that fetch_from_account fetched
\* from another account than its destination.
C38_Witness ==
    /\ spc = "Building" /\ Len(state) >= 2
    /\ fetchLog # <<>>
    /\ \A i \in 1..Len(fetchLog) :
            fetchLog[i].ok /\ fetchLog[i].account_id # destination_account
    /\ \E i, j \in 1..Len(state) : state[i].kind # state[j].kind

\* ------------------------------------------------- installing the binary

\* Processes that call ensure_sandbox_bin_with_version for one version at once.
NumInstallers == 3

Installers == 1..NumInstallers

\* A second look that does not see the binary.
NoCheckAfterLock(exists) == FALSE

\* installable: "Check again after acquiring if no one has written to the dest
\* path": bin_path.exists() under the lock.
ExistsAfterLock(exists) == exists

\* lockfile.lock_exclusive() returns once no other open file holds the lock.
LockExclusiveGranted == flock = {}

\* The lock File of process p is dropped or unlocked.
Unlocked(p) == flock' = flock \ {p}

\* installable, first test: `if bin_path.exists() { return Ok(None) }`, on which
\* ensure_sandbox_bin_with_version returns the path.
Installable(p) ==
    /\ ipc[p] = "installable"
    /\ ipc' = [ipc EXCEPT ![p] = IF binary THEN "Ok" ELSE "lock"]
    /\ UNCHANGED <<binary, flock, installed, found>>
    /\ UNCHANGED <<lifeVars, patchVars, ffVars, rpcVars, regVars, genVars>>

\* File::create(lockpath) and lockfile.lock_exclusive(): the call blocks until
\* the lock is free; either may fail with a FileError.
LockExclusive(p) ==
    /\ ipc[p] = "lock"
    /\ \/ /\ LockExclusiveGranted
          /\ flock' = flock \cup {p}
          /\ ipc' = [ipc EXCEPT ![p] = "check"]
       \/ /\ ipc' = [ipc EXCEPT ![p] = "Err"]
          /\ UNCHANGED flock
    /\ UNCHANGED <<binary, installed, found>>
    /\ UNCHANGED <<lifeVars, patchVars, ffVars, rpcVars, regVars, genVars>>

\* installable, second test, with the lock held: Ok(None) drops the lock File
\* and the path is returned; Ok(Some(lockfile)) goes on to install.
CheckAfterLock(p) ==
    /\ ipc[p] = "check"
    /\ IF ExistsAfterLock(binary)
       THEN /\ Unlocked(p)
            /\ found' = found \cup {p}
            /\ ipc' = [ipc EXCEPT ![p] = "Ok"]
       ELSE /\ ipc' = [ipc EXCEPT ![p] = "install"]
            /\ UNCHANGED <<flock, found>>
    /\ UNCHANGED <<binary, installed>>
    /\ UNCHANGED <<lifeVars, patchVars, ffVars, rpcVars, regVars, genVars>>

\* install_with_version: the path when check_for_version finds the binary;
\* otherwise download, unpack and rename into bin_path, or an error, with which
\* ensure_sandbox_bin_with_version returns and the lock File is dropped.
install_with_version(p) ==
    /\ ipc[p] = "install"
    /\ \/ /\ binary
          /\ ipc' = [ipc EXCEPT ![p] = "unlock"]
          /\ UNCHANGED <<binary, flock, installed>>
       \/ /\ ~binary
          /\ binary' = TRUE
          /\ installed' = installed \cup {p}
          /\ ipc' = [ipc EXCEPT ![p] = "unlock"]
          /\ UNCHANGED flock
       \/ /\ ~binary
          /\ Unlocked(p)
          /\ ipc' = [ipc EXCEPT ![p] = "Err"]
          /\ UNCHANGED <<binary, installed>>
    /\ UNCHANGED found
    /\ UNCHANGED <<lifeVars, patchVars, ffVars, rpcVars, regVars, genVars>>

\* set_var(NEAR_SANDBOX_BIN_PATH) and FileExt::unlock(&lockfile); when unlock
\* fails the error is returned and the File is dropped, which unlocks too.
UnlockAfterInstall(p) ==
    /\ ipc[p] = "unlock"
    /\ Unlocked(p)
    /\ \E r \in {"Ok", "Err"} : ipc' = [ipc EXCEPT ![p] = r]
    /\ UNCHANGED <<binary, installed, found>>
    /\ UNCHANGED <<lifeVars, patchVars, ffVars, rpcVars, regVars, genVars>>

\* SpecInstall: the processes call ensure_sandbox_bin_with_version for one
\* version, whose binary is absent or present, with NEAR_SANDBOX_BIN_PATH unset.
InitInstall ==
    /\ IdleLife /\ IdlePatch /\ IdleFF /\ IdleRpc /\ IdleRegistry /\ IdleGenesis
    /\ ipc = [p \in Installers |-> "installable"]
    /\ binary \in BOOLEAN
    /\ flock = {}
    /\ installed = {}
    /\ found = {}

NextInstall ==
    \/ \E p \in Installers : Installable(p)
    \/ \E p \in Installers : LockExclusive(p)
    \/ \E p \in Installers : CheckAfterLock(p)
    \/ \E p \in Installers : install_with_version(p)
    \/ \E p \in Installers : UnlockAfterInstall(p)

SpecInstall == InitInstall /\ [][NextInstall]_vars

\* Process p is between Ok(Some(lockfile)) and the unlock.
InInstallSection(p) == ipc[p] \in {"install", "unlock"}

C39_OneInstaller ==
    /\ Cardinality({p \in Installers : InInstallSection(p)}) <= 1
    /\ \A p \in Installers : InInstallSection(p) => flock = {p}
    /\ \A p \in Installers : ipc[p] = "install" => ~binary
    /\ Cardinality(installed) <= 1
    /\ found # {} => binary
    /\ found \cap installed = {}

C39_Step(p) ==
    (ipc[p] = "check" /\ binary /\ ipc'[p] # "check")
        => (ipc'[p] = "Ok" /\ p \notin flock' /\ installed' = installed /\ binary')

\* C39: of the processes that ensure the binary of one version while it is
\* absent, at most one is inside the download/install section at any time, and
\* a process that obtains the install lock after another one finished
\* installing finds the binary and does not install again.
C39_InstallSectionExclusiveAndNotRepeated ==
    /\ []C39_OneInstaller
    /\ [][\A p \in Installers : C39_Step(p)]_vars

\* One process installed; another, which had found the binary absent, got the
\* lock afterwards, found the binary and returned its path.
C39_Witness ==
    \E p, q \in Installers :
        /\ p # q /\ installed = {p} /\ q \in found
        /\ ipc[p] = "Ok" /\ ipc[q] = "Ok"

\* ------------------------------------------------- target of fast_forward

\* C40: the target height fast_forward waits for is exactly initial_height +
\* blocks, with no wraparound: when the sum exceeds the largest u64,
\* fast_forward does not return Ok on the basis of a wrapped, smaller target.
C40_TargetIsExactSum ==
    fpc \in {"SendFastForward", "Polling", "Ok"} =>
        /\ target_height = initial_height + blocks
        /\ fpc = "Ok" => initial_height + blocks < U64Modulus

====
